---- MODULE Spec2Model ----
(***************************************************************************)
(* A model of the cortx-test QA harness:                                   *)
(*   - libs/csm/rest/csm_rest_s3user.py  (class RestS3user),               *)
(*   - libs/ras/ras_core_lib.py          (class RASCoreLib),               *)
(*   - tests/s3/test_support_bundle.py   (class TestSupportBundle).        *)
(* The three parts share no state; each has its own specification          *)
(* (SpecRest, SpecRas, SpecBundle) over the same tuple of variables.       *)
(* The systems the harness talks to (REST server, remote node, consul KV   *)
(* store) are the environment: every answer they give is a                 *)
(* nondeterministic choice from a small set.                               *)
(***************************************************************************)
EXTENDS Integers, Sequences, FiniteSets, TLC

VARIABLES
    \* ---- RestS3user ----
    recently_created_s3_account_user, \* self.recently_created_s3_account_user
    csm_config,                       \* credentials saved by update_csm_config_for_user
    headers,                          \* self.headers, set by the login decorator
    clock,                            \* int(time.time())
    rest_pc,                          \* "idle" | "returned": position of the caller
    rest_call_rec,                    \* the call just made: operation, arguments, outcome
    rest_requests,                    \* the rest_call requests issued by that call
    \* ---- RASCoreLib and the node it operates on ----
    remote_fs,                        \* the paths that exist on the remote node
    kv_store,                         \* the consul KV store: key -> stored string
    ras_pc,                           \* "idle" | "returned"
    ras_calls,                        \* number of calls made so far
    ras_call_rec,                     \* the call just made: operation, arguments, outcome
    ras_log,                          \* the remote calls issued by that call, with results
    \* ---- TestSupportBundle ----
    file_lst,                         \* cls.file_lst: remote paths to delete at teardown
    pcs_start,                        \* self.pcs_start as the running test sees it
    cur_test,                         \* the test method running, or "none"
    test_phase,                       \* "none" | "body" | "ended" | "torn_down"
    test_pc,                          \* index of the next step of the test body
    verdict,                          \* "none" | "running" | "passed" | "failed"
    trace,                            \* the steps of the body executed so far
    resp_lst,                         \* the manager.list() shared with the processes
    process_lst,                      \* the child processes: state and outcome
    teardown_log,                     \* what the last teardown_method did, in order
    file_lst_at_start,                \* file_lst as the running test found it
    tests_run,                        \* number of tests started so far
    bundle_call_rec                   \* a helper called on its own: arguments, outcome

rest_vars == <<recently_created_s3_account_user, csm_config, headers, clock,
               rest_pc, rest_call_rec, rest_requests>>

ras_vars == <<remote_fs, kv_store, ras_pc, ras_calls, ras_call_rec, ras_log>>

bundle_vars == <<file_lst, pcs_start, cur_test, test_phase, test_pc, verdict, trace,
                 resp_lst, process_lst, teardown_log, file_lst_at_start, tests_run,
                 bundle_call_rec>>

vars == <<rest_vars, ras_vars, bundle_vars>>

----------------------------------------------------------------------------
(* Bounds of the model.                                                    *)

\* clock readings are 1..MaxClock
MaxClock == 2
\* longest s3_accounts list the server returns
MaxAccounts == 2
\* deepest remote path: number of components below the root
MaxDepth == 3
\* RASCoreLib calls in one run
MaxRasCalls == 2
\* test_cfg["count"]: bundles a test creates, processes it launches
LoopCount == 2
\* tests of TestSupportBundle in one session
MaxTests == 2

----------------------------------------------------------------------------
(* Values shared by the three parts.                                       *)

\* Python's None
None == [none |-> TRUE]

\* outcome of a call: a returned value or a raised exception
Ret(v) == [kind |-> "return", val |-> v]
Raise(e) == [kind |-> "raise", exc |-> e]

\* an exception object: its class, the number of its args, and the error
\* code a CTException carries
Exc(type, nargs) == [type |-> type, nargs |-> nargs, code |-> "none"]

\* the keys K of the dict full
Restrict(full, K) == [k \in K |-> full[k]]

----------------------------------------------------------------------------
(* RestS3user (libs/csm/rest/csm_rest_s3user.py).                          *)
(*                                                                         *)
(* A call is computed by operators that thread the object's state s        *)
(*   [recent, cfg, hdr, now, reqs, env]                                    *)
(* through the calls they make and return [s |-> state after, out |->      *)
(* outcome].  s.env is the script of the server's answers, one per         *)
(* rest_call, each an outcome (a response returned or an exception         *)
(* raised); s.reqs collects the requests issued.                           *)

\* commons.constants.Rest
SUCCESS_STATUS == 200
BAD_REQUEST == 400
ACCESS_KEY == "access_key"
SECRET_KEY == "secret_key"
ACC_NAME == "account_name"
ACC_EMAIL == "account_email"
S3_ACCOUNTS == "s3_accounts"
DELETE_SUCCESS_MSG == "Account Deleted Successfully."

\* commons.errorcodes
CSM_REST_AUTHENTICATION_ERROR == "CSM_REST_AUTHENTICATION_ERROR"
CSM_REST_VERIFICATION_FAILED == "CSM_REST_VERIFICATION_FAILED"

\* self.user_type with the "pre-define" type of create_payload_for_new_s3_account
user_type_tuple_with_predefine ==
    {"valid", "duplicate", "invalid", "missing", "pre-define"}

\* self.user_type, set in __init__
user_type_tuple == {"valid", "duplicate", "invalid", "missing"}

\* self.config: the entries of the CSM configuration the class reads
s3accounts_endpoint == <<"s3accounts">>
test_s3account_password == "Testuser@123"
s3account_user == [username |-> <<"s3account_user">>,
                   email |-> <<"s3account_user", "@seagate.com">>,
                   password |-> "Seagate@1"]

\* CTException(code, msg)
CTException(code) == [type |-> "CTException", nargs |-> 2, code |-> code]

\* `except Exception` does not catch what derives from BaseException only
IsException(error) == error.type # "KeyboardInterrupt"

\* raise CTException(code, error.args[0]) from error: evaluating
\* error.args[0] raises IndexError when the exception carries no args
raise_CTException(code, error) ==
    IF error.nargs = 0 THEN Exc("IndexError", 1) ELSE CTException(code)

\* bool(response): requests.Response is truthy when status_code < 400
Truthy(response) == response.status_code < 400

\* self.restapi.rest_call(verb, endpoint=..., data=..., headers=...): the
\* request goes out and the server's next answer comes back
rest_call(s, verb, endpoint, data) ==
    [s |-> [s EXCEPT !.reqs = Append(@, [verb |-> verb, endpoint |-> endpoint,
                                         data |-> data, headers |-> s.hdr]),
                     !.env = Tail(@)],
     out |-> Head(s.env)]

\* @RestTestLib.authenticate_and_login: log in before the call and keep the
\* authorization of that user in self.headers
authenticate_and_login(s, login_as) == [s EXCEPT !.hdr = login_as]

\* RestTestLib.update_csm_config_for_user(user_type, username, password)
update_csm_config_for_user(s, user, username, password) ==
    [s EXCEPT !.cfg = [user |-> user, username |-> username,
                       password |-> password]]

\* the user the decorator logs in as when no login_as is passed
default_login == "csm_admin_user"

RECURSIVE create_s3_account(_, _, _, _)
RECURSIVE create_payload_for_new_s3_account(_, _)

create_payload_for_new_s3_account(s, user_type) ==
    LET on_error(st, error) ==
            IF IsException(error)
            THEN [s |-> st,
                  out |-> Raise(raise_CTException(CSM_REST_VERIFICATION_FAILED, error))]
            ELSE [s |-> st, out |-> Raise(error)]
    IN  CASE user_type = "pre-define" ->
                [s |-> s,
                 out |-> Ret([account_name |-> s3account_user.username,
                              account_email |-> s3account_user.email,
                              password |-> s3account_user.password])]
          [] user_type = "duplicate" ->
                \* creating new user to make it as duplicate
                LET r == create_s3_account(s, "valid", FALSE, default_login)
                IN  IF r.out.kind = "raise"
                    THEN on_error(r.s, r.out.exc)
                    ELSE [s |-> r.s, out |-> Ret(r.s.recent)]
          [] user_type = "missing" ->
                [s |-> s, out |-> Ret([password |-> test_s3account_password])]
          [] user_type = "invalid" ->
                [s |-> s,
                 out |-> Ret([user_name |-> "xys", mail |-> "abc@email.com",
                              pass_word |-> "password"])]
          [] user_type = "invalid_for_ui" ->
                [s |-> s,
                 out |-> Ret([account_name |-> <<"*ask%^*&">>,
                              account_email |-> <<"seagate*mail-com">>,
                              password |-> "password"])]
          [] user_type = "valid" ->
                [s |-> s,
                 out |-> Ret([account_name |-> <<"test", s.now>>,
                              account_email |-> <<"test", s.now, "@seagate.com">>,
                              password |-> test_s3account_password])]
          [] OTHER ->
                \* user_name is read before any assignment
                on_error(s, Exc("UnboundLocalError", 1))

create_s3_account(s, user_type, save_new_user, login_as) ==
    LET on_error(st, error) ==
            [s |-> st,
             out |-> Raise(raise_CTException(CSM_REST_AUTHENTICATION_ERROR, error))]
        s0 == authenticate_and_login(s, login_as)
        p == create_payload_for_new_s3_account(s0, user_type)
    IN  IF p.out.kind = "raise"
        THEN on_error(p.s, p.out.exc)
        ELSE LET user_data == p.out.val
                 s1 == [p.s EXCEPT !.recent = user_data]
             IN  IF save_new_user
                    /\ ~({"account_name", "password"} \subseteq DOMAIN user_data)
                 THEN on_error(s1, Exc("KeyError", 1))
                 ELSE LET s2 == IF save_new_user
                                THEN update_csm_config_for_user(
                                         s1, "new_s3_account_user",
                                         user_data["account_name"],
                                         user_data["password"])
                                ELSE s1
                          r == rest_call(s2, "post", s3accounts_endpoint, user_data)
                      IN  IF r.out.kind = "raise"
                          THEN on_error(r.s, r.out.exc)
                          ELSE r

list_all_created_s3account(s, login_as) ==
    LET s0 == authenticate_and_login(s, login_as)
        r == rest_call(s0, "get", s3accounts_endpoint, None)
    IN  IF r.out.kind = "raise"
        THEN [s |-> r.s,
              out |-> Raise(raise_CTException(CSM_REST_AUTHENTICATION_ERROR, r.out.exc))]
        ELSE r

edit_user_payload(payload_type) ==
    LET payload_values ==
            [valid |-> [password |-> test_s3account_password,
                        reset_access_key |-> "true"],
             unchanged_access |-> [password |-> test_s3account_password,
                                   reset_access_key |-> "false"],
             only_reset_access_key |-> [reset_access_key |-> "true"],
             only_password |-> [password |-> test_s3account_password],
             no_payload |-> [k \in {} |-> ""]]
    IN  IF payload_type \notin DOMAIN payload_values
        THEN None
        ELSE payload_values[payload_type]

edit_s3_account_user(s, username, payload, login_as) ==
    LET s0 == authenticate_and_login(s, login_as)
        patch_payload == edit_user_payload(payload)
        r == rest_call(s0, "patch", s3accounts_endpoint \o <<username>>, patch_payload)
    IN  IF r.out.kind = "raise"
        THEN [s |-> r.s,
              out |-> Raise(raise_CTException(CSM_REST_AUTHENTICATION_ERROR, r.out.exc))]
        ELSE r

\* delete_s3_account_user with the verb of the function it was copied from
delete_s3_account_user_get(s, username, login_as) ==
    LET s0 == authenticate_and_login(s, login_as)
        r == rest_call(s0, "get", s3accounts_endpoint \o <<username>>, None)
    IN  IF r.out.kind = "raise"
        THEN [s |-> r.s,
              out |-> Raise(raise_CTException(CSM_REST_AUTHENTICATION_ERROR, r.out.exc))]
        ELSE r

delete_s3_account_user(s, username, login_as) ==
    LET s0 == authenticate_and_login(s, login_as)
        r == rest_call(s0, "delete", s3accounts_endpoint \o <<username>>, None)
    IN  IF r.out.kind = "raise"
        THEN [s |-> r.s,
              out |-> Raise(raise_CTException(CSM_REST_AUTHENTICATION_ERROR, r.out.exc))]
        ELSE r

edit_s3_account_user_invalid_password(s, username, payload, login_as) ==
    LET s0 == authenticate_and_login(s, login_as)
        r == rest_call(s0, "patch", s3accounts_endpoint \o <<username>>, payload)
    IN  IF r.out.kind = "raise"
        THEN [s |-> r.s,
              out |-> Raise(raise_CTException(CSM_REST_AUTHENTICATION_ERROR, r.out.exc))]
        ELSE r

\* config_utils.verify_json_response(actual_result, expect_result): every
\* expected key is in the actual dict with the expected value
verify_json_response(actual_result, expect_result) ==
    \A k \in DOMAIN expect_result :
        k \in DOMAIN actual_result /\ actual_result[k] = expect_result[k]

\* the handler of the verifying functions: `except Exception as error`
verification_failed(st, error) ==
    IF IsException(error)
    THEN [s |-> st,
          out |-> Raise(raise_CTException(CSM_REST_VERIFICATION_FAILED, error))]
    ELSE [s |-> st, out |-> Raise(error)]

verify_list_s3account_details(s, expect_no_user) ==
    LET r == list_all_created_s3account(s, default_login)
    IN  IF r.out.kind = "raise"
        THEN verification_failed(r.s, r.out.exc)
        ELSE LET response == r.out.val
             IN  IF ~Truthy(response) \/ response.status_code # SUCCESS_STATUS
                 THEN [s |-> r.s, out |-> Ret(FALSE)]
                 ELSE IF S3_ACCOUNTS \notin DOMAIN response.json
                 THEN [s |-> r.s, out |-> Ret(FALSE)]
                 ELSE IF Len(response.json["s3_accounts"]) = 0 \/ expect_no_user
                 THEN \* the warning logs len(response["iam_users"])
                      IF "iam_users" \notin DOMAIN response.json
                      THEN verification_failed(r.s, Exc("KeyError", 1))
                      ELSE [s |-> r.s,
                            out |-> Ret(Len(response.json["s3_accounts"]) = 0
                                        /\ expect_no_user)]
                 ELSE [s |-> r.s,
                       out |-> Ret(\A i \in DOMAIN response.json["s3_accounts"] :
                                     LET key == response.json["s3_accounts"][i]
                                     IN  ACC_NAME \in DOMAIN key
                                         /\ ACC_EMAIL \in DOMAIN key)]

create_and_verify_s3account(s, user, expect_status_code) ==
    IF user \notin user_type_tuple
    THEN [s |-> s, out |-> Ret(FALSE)]
    ELSE
    LET r == create_s3_account(s, user, FALSE, default_login)
    IN  IF r.out.kind = "raise"
        THEN verification_failed(r.s, r.out.exc)
        ELSE LET response == r.out.val
                 json == response.json
                 recent == r.s.recent
             IN  IF user # "valid"
                 THEN [s |-> r.s, out |-> Ret(response.status_code = expect_status_code)]
                 ELSE IF ~Truthy(response) \/ response.status_code # expect_status_code
                 THEN [s |-> r.s, out |-> Ret(FALSE)]
                 ELSE IF ACCESS_KEY \notin DOMAIN json /\ SECRET_KEY \notin DOMAIN json
                 THEN [s |-> r.s, out |-> Ret(FALSE)]
                 ELSE IF ACC_NAME \notin DOMAIN json
                 THEN verification_failed(r.s, Exc("KeyError", 1))
                 ELSE IF json[ACC_NAME] # recent[ACC_NAME]
                 THEN [s |-> r.s, out |-> Ret(FALSE)]
                 ELSE IF ACC_EMAIL \notin DOMAIN json
                 THEN verification_failed(r.s, Exc("KeyError", 1))
                 ELSE IF json[ACC_EMAIL] # recent[ACC_EMAIL]
                 THEN [s |-> r.s, out |-> Ret(FALSE)]
                 ELSE
                 LET l == list_all_created_s3account(r.s, default_login)
                 IN  IF l.out.kind = "raise"
                     THEN verification_failed(l.s, l.out.exc)
                     ELSE IF "s3_accounts" \notin DOMAIN l.out.val.json
                     THEN verification_failed(l.s, Exc("KeyError", 1))
                     ELSE
                     LET list_acc == l.out.val.json["s3_accounts"]
                         expected_result == [account_email |-> json[ACC_EMAIL],
                                             account_name |-> json[ACC_NAME]]
                     IN  [s |-> l.s,
                          out |-> Ret(\E i \in DOMAIN list_acc :
                                        verify_json_response(list_acc[i],
                                                             expected_result))]

\* edit_and_verify_s3_account_user without the test that the keys are
\* absent when the access is unchanged
edit_and_verify_s3_account_user_keys_unchecked(s, user_payload) ==
    LET c == create_s3_account(s, "valid", TRUE, default_login)
    IN  IF c.out.kind = "raise"
        THEN verification_failed(c.s, c.out.exc)
        ELSE
        LET account_name == c.s.recent["account_name"]
            r == edit_s3_account_user(c.s, account_name, user_payload,
                                      "new_s3_account_user")
        IN  IF r.out.kind = "raise"
            THEN verification_failed(r.s, r.out.exc)
            ELSE
            LET response == r.out.val
                json == response.json
            IN  IF user_payload \in {"unchanged_access", "only_password"}
                THEN IF ~Truthy(response) \/ response.status_code # SUCCESS_STATUS
                     THEN [s |-> r.s, out |-> Ret(FALSE)]
                     ELSE IF ACC_NAME \notin DOMAIN json
                     THEN verification_failed(r.s, Exc("KeyError", 1))
                     ELSE [s |-> r.s, out |-> Ret(json[ACC_NAME] = account_name)]
                ELSE IF user_payload # "valid"
                THEN [s |-> r.s,
                      out |-> Ret(~Truthy(response)
                                  /\ response.status_code = BAD_REQUEST)]
                ELSE IF ~Truthy(response) \/ response.status_code # SUCCESS_STATUS
                THEN [s |-> r.s, out |-> Ret(FALSE)]
                ELSE IF ACCESS_KEY \notin DOMAIN json /\ SECRET_KEY \notin DOMAIN json
                THEN [s |-> r.s, out |-> Ret(FALSE)]
                ELSE IF ACC_NAME \notin DOMAIN json
                THEN [s |-> r.s, out |-> Ret(FALSE)]
                ELSE [s |-> r.s, out |-> Ret(json[ACC_NAME] = account_name)]

edit_and_verify_s3_account_user(s, user_payload) ==
    LET c == create_s3_account(s, "valid", TRUE, default_login)
    IN  IF c.out.kind = "raise"
        THEN verification_failed(c.s, c.out.exc)
        ELSE
        LET account_name == c.s.recent["account_name"]
            r == edit_s3_account_user(c.s, account_name, user_payload,
                                      "new_s3_account_user")
        IN  IF r.out.kind = "raise"
            THEN verification_failed(r.s, r.out.exc)
            ELSE
            LET response == r.out.val
                json == response.json
            IN  IF user_payload \in {"unchanged_access", "only_password"}
                THEN IF ~Truthy(response) \/ response.status_code # SUCCESS_STATUS
                     THEN [s |-> r.s, out |-> Ret(FALSE)]
                     ELSE IF ACC_NAME \notin DOMAIN json
                     THEN verification_failed(r.s, Exc("KeyError", 1))
                     ELSE [s |-> r.s,
                           out |-> Ret(json[ACC_NAME] = account_name
                                       /\ ACCESS_KEY \notin DOMAIN json
                                       /\ SECRET_KEY \notin DOMAIN json)]
                ELSE IF user_payload # "valid"
                THEN [s |-> r.s,
                      out |-> Ret(~Truthy(response)
                                  /\ response.status_code = BAD_REQUEST)]
                ELSE IF ~Truthy(response) \/ response.status_code # SUCCESS_STATUS
                THEN [s |-> r.s, out |-> Ret(FALSE)]
                ELSE IF ACCESS_KEY \notin DOMAIN json /\ SECRET_KEY \notin DOMAIN json
                THEN [s |-> r.s, out |-> Ret(FALSE)]
                ELSE IF ACC_NAME \notin DOMAIN json
                THEN [s |-> r.s, out |-> Ret(FALSE)]
                ELSE [s |-> r.s, out |-> Ret(json[ACC_NAME] = account_name)]

\* delete_and_verify_s3_account_user without the test of the status code
delete_and_verify_s3_account_user_any_status(s) ==
    LET c == create_s3_account(s, "valid", TRUE, default_login)
    IN  IF c.out.kind = "raise"
        THEN verification_failed(c.s, c.out.exc)
        ELSE
        LET account_name == c.s.recent["account_name"]
            r == delete_s3_account_user(c.s, account_name, "new_s3_account_user")
        IN  IF r.out.kind = "raise"
            THEN verification_failed(r.s, r.out.exc)
            ELSE
            LET json == r.out.val.json
            IN  IF "message" \notin DOMAIN json
                THEN verification_failed(r.s, Exc("KeyError", 1))
                ELSE [s |-> r.s, out |-> Ret(json["message"] = DELETE_SUCCESS_MSG)]

delete_and_verify_s3_account_user(s) ==
    LET c == create_s3_account(s, "valid", TRUE, default_login)
    IN  IF c.out.kind = "raise"
        THEN verification_failed(c.s, c.out.exc)
        ELSE
        LET account_name == c.s.recent["account_name"]
            r == delete_s3_account_user(c.s, account_name, "new_s3_account_user")
        IN  IF r.out.kind = "raise"
            THEN verification_failed(r.s, r.out.exc)
            ELSE
            LET response == r.out.val
                json == response.json
            IN  IF ~Truthy(response) \/ response.status_code # SUCCESS_STATUS
                THEN [s |-> r.s, out |-> Ret(FALSE)]
                ELSE IF "message" \notin DOMAIN json
                THEN verification_failed(r.s, Exc("KeyError", 1))
                ELSE [s |-> r.s, out |-> Ret(json["message"] = DELETE_SUCCESS_MSG)]

----------------------------------------------------------------------------
(* The REST server as the environment of RestS3user.                       *)

Response(status_code, json) == [status_code |-> status_code, json |-> json]

\* what rest_call can raise: an exception with a message, one without
\* arguments, and one that derives from BaseException only
ExcEvents == {Raise(Exc("ConnectionError", 1)), Raise(Exc("TimeoutError", 0)),
              Raise(Exc("KeyboardInterrupt", 0))}

\* the answer that fills the part of a script no rest_call consumes
Pad == Raise(Exc("ConnectionError", 1))

\* account names and e-mail addresses the server may answer with
ServerNames == {<<"test", 1>>, <<"other">>}
ServerEmails == {<<"test", 1, "@seagate.com">>, <<"other", "@seagate.com">>}

AccountKeys == {ACCESS_KEY, SECRET_KEY, ACC_NAME, ACC_EMAIL}

AccountFull(n, e) == [access_key |-> "AK", secret_key |-> "SK",
                      account_name |-> n, account_email |-> e]

\* bodies of the answers to POST and PATCH: any subset of the four keys
AccountBodies ==
    {Restrict(AccountFull(n, e), K) :
        n \in ServerNames, e \in ServerEmails, K \in SUBSET AccountKeys}

ErrorBody == [message |-> "error"]

AccountEvents ==
    {Ret(Response(SUCCESS_STATUS, b)) : b \in AccountBodies}
    \cup {Ret(Response(BAD_REQUEST, ErrorBody)),
          Ret(Response(BAD_REQUEST,
                       AccountFull(<<"test", 1>>, <<"test", 1, "@seagate.com">>)))}
    \cup ExcEvents

\* entries of an s3_accounts list
ListedAccounts ==
    {[account_name |-> <<"test", 1>>],
     [account_name |-> <<"test", 1>>,
      account_email |-> <<"test", 1, "@seagate.com">>],
     [account_name |-> <<"other">>, account_email |-> <<"other", "@seagate.com">>]}

SeqUpTo(S, n) == UNION {[1..k -> S] : k \in 0..n}

\* bodies of the answers to GET: with or without s3_accounts, with or
\* without iam_users
ListBodies ==
    {ErrorBody, [iam_users |-> <<>>]}
    \cup {[s3_accounts |-> l] : l \in SeqUpTo(ListedAccounts, MaxAccounts)}
    \cup {[s3_accounts |-> l, iam_users |-> <<>>] :
            l \in SeqUpTo(ListedAccounts, MaxAccounts)}

ListEvents ==
    {Ret(Response(SUCCESS_STATUS, b)) : b \in ListBodies}
    \cup {Ret(Response(BAD_REQUEST, ErrorBody)),
          Ret(Response(BAD_REQUEST, [s3_accounts |-> <<>>]))}
    \cup ExcEvents

\* answers to DELETE, and to the requests whose answer is passed through
MessageEvents ==
    {Ret(Response(SUCCESS_STATUS, [message |-> DELETE_SUCCESS_MSG])),
     Ret(Response(SUCCESS_STATUS, [message |-> "ok"])),
     Ret(Response(BAD_REQUEST, ErrorBody))}
    \cup ExcEvents

\* answers to the DELETE of delete_and_verify_s3_account_user
DeleteEvents ==
    MessageEvents
    \cup {Ret(Response(SUCCESS_STATUS, [iam_users |-> <<>>])),
          Ret(Response(BAD_REQUEST, [message |-> DELETE_SUCCESS_MSG]))}

\* arguments the callers pass
UserTypeInputs == {"pre-define", "valid", "duplicate", "missing", "invalid",
                   "invalid_for_ui", "unknown"}
PayloadInputs == {"valid", "unchanged_access", "only_reset_access_key",
                  "only_password", "no_payload", "unknown"}
LoginInputs == {default_login, "new_s3_account_user"}
StatusInputs == {SUCCESS_STATUS, BAD_REQUEST}

\* the object's state at the start of a call with the answers env ahead
RestState(env) ==
    [recent |-> recently_created_s3_account_user, cfg |-> csm_config,
     hdr |-> headers, now |-> clock, reqs |-> <<>>, env |-> env]

\* the call op(args) ran against the script env with result r
RestCommit(op, args, env, r) ==
    /\ \A i \in DOMAIN r.s.env : r.s.env[i] = Pad
    /\ recently_created_s3_account_user' = r.s.recent
    /\ csm_config' = r.s.cfg
    /\ headers' = r.s.hdr
    /\ rest_requests' = r.s.reqs
    /\ rest_call_rec' = [op |-> op, args |-> args, env |-> env, out |-> r.out]
    /\ rest_pc' = "returned"
    /\ UNCHANGED <<clock, ras_vars, bundle_vars>>

NoCall == [op |-> "none"]

RestInit ==
    /\ recently_created_s3_account_user = None
    /\ csm_config = None
    /\ headers = None
    /\ clock = 1
    /\ rest_pc = "idle"
    /\ rest_call_rec = NoCall
    /\ rest_requests = <<>>

CallCreateS3Account ==
    /\ rest_pc = "idle"
    /\ \E user_type \in UserTypeInputs, save_new_user \in BOOLEAN,
          e1 \in MessageEvents, e2 \in MessageEvents :
          LET env == <<e1, e2>>
          IN  RestCommit("create_s3_account",
                         [user_type |-> user_type, save_new_user |-> save_new_user],
                         env,
                         create_s3_account(RestState(env), user_type,
                                           save_new_user, default_login))

CallListAllCreatedS3account ==
    /\ rest_pc = "idle"
    /\ \E e1 \in MessageEvents :
          RestCommit("list_all_created_s3account", None, <<e1>>,
                     list_all_created_s3account(RestState(<<e1>>), default_login))

CallEditS3AccountUser ==
    /\ rest_pc = "idle"
    /\ \E username \in ServerNames, payload \in PayloadInputs,
          login_as \in LoginInputs, e1 \in MessageEvents :
          RestCommit("edit_s3_account_user",
                     [username |-> username, payload |-> payload,
                      login_as |-> login_as],
                     <<e1>>,
                     edit_s3_account_user(RestState(<<e1>>), username, payload,
                                          login_as))

CallDeleteS3AccountUser ==
    /\ rest_pc = "idle"
    /\ \E username \in ServerNames, login_as \in LoginInputs, e1 \in MessageEvents :
          RestCommit("delete_s3_account_user",
                     [username |-> username, login_as |-> login_as],
                     <<e1>>,
                     delete_s3_account_user(RestState(<<e1>>), username, login_as))

CallEditS3AccountUserInvalidPassword ==
    /\ rest_pc = "idle"
    /\ \E username \in ServerNames,
          payload \in {[password |-> "pass"], [password |-> ""]},
          e1 \in MessageEvents :
          RestCommit("edit_s3_account_user_invalid_password",
                     [username |-> username, payload |-> payload],
                     <<e1>>,
                     edit_s3_account_user_invalid_password(
                         RestState(<<e1>>), username, payload, default_login))

CallVerifyListS3accountDetails ==
    /\ rest_pc = "idle"
    /\ \E expect_no_user \in BOOLEAN, e1 \in ListEvents :
          RestCommit("verify_list_s3account_details",
                     [expect_no_user |-> expect_no_user],
                     <<e1>>,
                     verify_list_s3account_details(RestState(<<e1>>),
                                                   expect_no_user))

CallCreateAndVerifyS3account ==
    /\ rest_pc = "idle"
    /\ \E user \in user_type_tuple \cup {"pre-define"},
          expect_status_code \in StatusInputs :
          \E e1 \in IF user = "valid" THEN AccountEvents ELSE MessageEvents,
             e2 \in IF user = "valid" THEN ListEvents ELSE MessageEvents :
             LET env == <<e1, e2>>
             IN  RestCommit("create_and_verify_s3account",
                            [user |-> user,
                             expect_status_code |-> expect_status_code],
                            env,
                            create_and_verify_s3account(RestState(env), user,
                                                        expect_status_code))

CallEditAndVerifyS3AccountUser ==
    /\ rest_pc = "idle"
    /\ \E user_payload \in PayloadInputs,
          e1 \in MessageEvents, e2 \in AccountEvents :
          LET env == <<e1, e2>>
          IN  RestCommit("edit_and_verify_s3_account_user",
                         [user_payload |-> user_payload],
                         env,
                         edit_and_verify_s3_account_user(RestState(env),
                                                         user_payload))

CallDeleteAndVerifyS3AccountUser ==
    /\ rest_pc = "idle"
    /\ \E e1 \in MessageEvents, e2 \in DeleteEvents :
          LET env == <<e1, e2>>
          IN  RestCommit("delete_and_verify_s3_account_user", None, env,
                         delete_and_verify_s3_account_user(RestState(env)))

\* the caller takes the result; the object keeps its attributes
RestReturn ==
    /\ rest_pc = "returned"
    /\ rest_pc' = "idle"
    /\ rest_call_rec' = NoCall
    /\ rest_requests' = <<>>
    /\ UNCHANGED <<recently_created_s3_account_user, csm_config, headers, clock,
                   ras_vars, bundle_vars>>

\* time passes between two calls
Tick ==
    /\ rest_pc = "idle"
    /\ clock' = (clock % MaxClock) + 1
    /\ UNCHANGED <<recently_created_s3_account_user, csm_config, headers,
                   rest_pc, rest_call_rec, rest_requests, ras_vars, bundle_vars>>

RestNext ==
    \/ CallCreateS3Account
    \/ CallListAllCreatedS3account
    \/ CallEditS3AccountUser
    \/ CallDeleteS3AccountUser
    \/ CallEditS3AccountUserInvalidPassword
    \/ CallVerifyListS3accountDetails
    \/ CallCreateAndVerifyS3account
    \/ CallEditAndVerifyS3AccountUser
    \/ CallDeleteAndVerifyS3AccountUser
    \/ RestReturn
    \/ Tick

----------------------------------------------------------------------------
(* Text.  A string is the sequence of its characters; a path string is     *)
(* kept as the list str.split("/") makes of it, so "/" is <<"", "">> and   *)
(* "/a/b" is <<"", "a", "b">>.                                             *)

IsSpace(c) == c \in {" ", "\n"}

RECURSIVE split_words(_, _, _)
split_words(s, cur, acc) ==
    IF s = <<>>
    THEN IF cur = <<>> THEN acc ELSE Append(acc, cur)
    ELSE IF IsSpace(Head(s))
         THEN split_words(Tail(s), <<>>, IF cur = <<>> THEN acc ELSE Append(acc, cur))
         ELSE split_words(Tail(s), Append(cur, Head(s)), acc)

\* s.split()
str_split(s) == split_words(s, <<>>, <<>>)

\* sep.join(words)
RECURSIVE str_join(_, _)
str_join(sep, words) ==
    IF words = <<>> THEN <<>>
    ELSE IF Len(words) = 1 THEN words[1]
    ELSE words[1] \o sep \o str_join(sep, Tail(words))

\* " ".join(s.split())
normalize_spaces(s) == str_join(<<" ">>, str_split(s))

RECURSIVE lstrip(_)
lstrip(s) == IF s # <<>> /\ IsSpace(Head(s)) THEN lstrip(Tail(s)) ELSE s

RECURSIVE rstrip(_)
rstrip(s) ==
    IF s # <<>> /\ IsSpace(s[Len(s)]) THEN rstrip(SubSeq(s, 1, Len(s) - 1)) ELSE s

\* s.strip()
str_strip(s) == lstrip(rstrip(s))

Root == <<"", "">>

IsAbs(path) == Len(path) >= 2 /\ path[1] = ""

\* os.path.join(a, b): an absolute b replaces a; otherwise b is appended
\* with one separator between them
os_path_join(a, b) ==
    IF IsAbs(b) THEN b
    ELSE IF a[Len(a)] = "" THEN SubSeq(a, 1, Len(a) - 1) \o b
    ELSE a \o b

\* the directories above an absolute path
PathAncestors(path) ==
    IF path = Root THEN {}
    ELSE {Root} \cup {SubSeq(path, 1, k) : k \in 2..(Len(path) - 1)}

----------------------------------------------------------------------------
(* RASCoreLib (libs/ras/ras_core_lib.py).                                  *)
(*                                                                         *)
(* The operators thread the remote node r = [fs, kv, log, env] through the *)
(* remote calls an operation makes.  r.env holds the node's answer to each *)
(* kind of command; r.log collects the calls made with their results.      *)

\* the remote paths of the model: one chain /d1/d2/...
ChainNames == <<"d1", "d2", "d3", "d4", "d5">>
RemotePath(k) == <<"">> \o SubSeq(ChainNames, 1, k)
RemotePaths == {RemotePath(k) : k \in 1..MaxDepth}

\* node_utils.path_exists(path)
path_exists(r, path) ==
    [r |-> [r EXCEPT !.log = Append(@, [cmd |-> [kind |-> "path_exists",
                                                  path |-> path],
                                        res |-> path \in r.fs])],
     out |-> path \in r.fs]

\* number of calls of a kind made so far
CountKind(log, kind) == Cardinality({i \in DOMAIN log : log[i].cmd.kind = kind})

\* node_utils.create_dir_sftp(dpath): when the node reports success the
\* directory exists afterwards, with the directories above it
create_dir_sftp(r, dpath) ==
    LET ok == r.env["create_dir_sftp"][CountKind(r.log, "create_dir_sftp") + 1]
    IN  [r |-> [r EXCEPT !.log = Append(@, [cmd |-> [kind |-> "create_dir_sftp",
                                                     dpath |-> dpath],
                                            res |-> ok]),
                         !.fs = IF ok THEN @ \cup {dpath} \cup PathAncestors(dpath)
                                ELSE @],
         out |-> ok]

\* the loop of create_remote_dir_recursive over the directories of file_path
RECURSIVE create_remote_dir_loop(_, _, _)
create_remote_dir_loop(r, new_path, remote_path_lst) ==
    IF remote_path_lst = <<>>
    THEN [r |-> r, out |-> Ret(TRUE)]
    ELSE LET directory == <<Head(remote_path_lst)>>
             old_path == new_path
             next_path == os_path_join(new_path, directory)
             e == path_exists(r, next_path)
         IN  IF ~e.out
             THEN LET resp == create_dir_sftp(e.r, os_path_join(directory, old_path))
                  IN  IF ~resp.out
                      THEN [r |-> resp.r, out |-> Ret(FALSE)]
                      ELSE create_remote_dir_loop(resp.r, next_path,
                                                  Tail(remote_path_lst))
             ELSE create_remote_dir_loop(e.r, next_path, Tail(remote_path_lst))

create_remote_dir_recursive(r, file_path) ==
    LET res == path_exists(r, file_path)
    IN  IF ~res.out
        THEN \* file_path.split("/")[:-1], then the loop over its [1:]
             LET remote_path_lst == SubSeq(file_path, 1, Len(file_path) - 1)
             IN  create_remote_dir_loop(res.r, Root, Tail(remote_path_lst))
        ELSE [r |-> res.r, out |-> Ret(TRUE)]

\* node_utils.execute_cmd(cmd): (status, output) as the node answers this
\* kind of command.  The consul commands act on the KV store: a put that
\* succeeds stores the value, a get that succeeds prints the stored value
\* and a newline, and a get of a key that does not exist fails.
NoKeyOutput == <<"E", "r", "r", "o", "r", "!">>
PutOutput == <<"S", "u", "c", "c", "e", "s", "s", "!">>

execute_cmd(r, cmd) ==
    LET ans == r.env[cmd.kind]
        res == CASE cmd.kind = "kv_put" ->
                      IF ans[1] THEN <<TRUE, PutOutput>> ELSE ans
                 [] cmd.kind = "kv_get" ->
                      IF ~ans[1] THEN ans
                      ELSE IF r.kv[cmd.key] = None THEN <<FALSE, NoKeyOutput>>
                      ELSE <<TRUE, r.kv[cmd.key] \o <<"\n">> >>
                 [] OTHER -> ans
        kv == IF cmd.kind = "kv_put" /\ ans[1]
              THEN [r.kv EXCEPT ![cmd.key] = cmd.val]
              ELSE r.kv
    IN  [r |-> [r EXCEPT !.log = Append(@, [cmd |-> cmd, res |-> res]),
                         !.kv = kv],
         out |-> res]

truncate_file(r, file_path) ==
    execute_cmd(r, [kind |-> "truncate", path |-> file_path])

cp_file(r, path, backup_path) ==
    execute_cmd(r, [kind |-> "cp", path |-> path, backup_path |-> backup_path])

install_screen_on_machine(r) == execute_cmd(r, [kind |-> "install_screen"])

check_status_file(r) == execute_cmd(r, [kind |-> "update_stat_file"])

change_file_mode(r, path) == execute_cmd(r, [kind |-> "chmod", path |-> path])

get_cluster_id(r) == execute_cmd(r, [kind |-> "get_cluster_id"])

encrypt_pwd(r, password, cluster_id) ==
    execute_cmd(r, [kind |-> "encrypt", password |-> password,
                    cluster_id |-> cluster_id])

kv_put(r, field, val, kv_path) ==
    execute_cmd(r, [kind |-> "kv_put", key |-> <<kv_path, field>>, val |-> val])

kv_get(r, field, kv_path) ==
    execute_cmd(r, [kind |-> "kv_get", key |-> <<kv_path, field>>])

run_mdadm_cmd(r, args) == execute_cmd(r, [kind |-> "mdadm", args |-> args])

generate_log_err_alert(r, logger_alert_cmd) ==
    execute_cmd(r, [kind |-> "logger", cmd |-> logger_alert_cmd])

\* cal_sel_space without the test of the command's status
cal_sel_space_unchecked(r) ==
    LET res == execute_cmd(r, [kind |-> "sel_info"])
        use_percent_lst == SelectSeq(res.out[2], LAMBDA k : k.label = "Percent Used")
    IN  IF use_percent_lst = <<>>
        THEN [r |-> res.r, out |-> Raise(Exc("IndexError", 1))]
        ELSE [r |-> res.r, out |-> Ret(use_percent_lst[1].value)]

\* cal_sel_space: the output of `ipmitool sel info` is a list of lines, a
\* line being [label, value] for the text "<label> : <value>%"
cal_sel_space(r) ==
    LET res == execute_cmd(r, [kind |-> "sel_info"])
    IN  IF ~res.out[1]
        THEN [r |-> res.r, out |-> Ret(0)]
        ELSE LET alert_cache_data == res.out[2]
                 use_percent_lst ==
                     SelectSeq(alert_cache_data,
                               LAMBDA k : k.label = "Percent Used")
             IN  IF use_percent_lst = <<>>
                 THEN [r |-> res.r, out |-> Raise(Exc("IndexError", 1))]
                 ELSE [r |-> res.r, out |-> Ret(use_percent_lst[1].value)]

\* get_fan_name: the output of `ipmitool sdr list` is a list of lines, a
\* line being [label, value] for the text "<label> | <value>"
get_fan_name(r) ==
    LET componets_lst == execute_cmd(r, [kind |-> "sdr_list"])
    IN  IF ~componets_lst.out[1]
        THEN [r |-> componets_lst.r, out |-> Ret(None)]
        ELSE LET fan_list ==
                     SelectSeq(componets_lst.out[2],
                               LAMBDA i : i.label \in {"FAN1", "FAN2"})
             IN  IF fan_list = <<>>
                 THEN [r |-> componets_lst.r, out |-> Raise(Exc("IndexError", 1))]
                 ELSE [r |-> componets_lst.r, out |-> Ret(fan_list[1].label)]

\* str(n) and int(s) for the naturals
DigitChars == <<"0", "1", "2", "3", "4", "5", "6", "7", "8", "9">>

IsDigit(c) == \E i \in DOMAIN DigitChars : DigitChars[i] = c

DigitVal(c) == (CHOOSE i \in DOMAIN DigitChars : DigitChars[i] = c) - 1

RECURSIVE int_to_str(_)
int_to_str(n) ==
    IF n < 10 THEN <<DigitChars[n + 1]>>
    ELSE int_to_str(n \div 10) \o <<DigitChars[(n % 10) + 1]>>

RECURSIVE digits_value(_)
digits_value(s) ==
    IF s = <<>> THEN 0
    ELSE 10 * digits_value(SubSeq(s, 1, Len(s) - 1)) + DigitVal(s[Len(s)])

\* int(s) is defined when s, stripped, is a non-empty run of digits
IsIntText(s) ==
    LET x == str_strip(s)
    IN  x # <<>> /\ \A i \in DOMAIN x : IsDigit(x[i])

str_to_int(s) == digits_value(str_strip(s))

\* a Python value of the kinds update_threshold_values distinguishes
IntValue(n) == [type |-> "int", int |-> n]
StrValue(s) == [type |-> "str", str |-> s]

\* "{}".format(value)
py_format(value) == IF value.type = "int" THEN int_to_str(value.int) ELSE value.str

\* cmn_cons paths
STORAGE_ENCLOSURE_PATH == <<"", "opt", "seagate", "storage_enclosure.sls">>
ENCRYPTOR_PATH == <<"", "root", "encryptor_updated.py">>
KV_STORE_PATH == "sspl/config/STORAGE_ENCLOSURE"

\* node_utils.copy_file_to_remote(local_path, remote_path)
copy_file_to_remote(r, remote_path) ==
    LET ok == r.env["copy_file"]
    IN  [r EXCEPT !.log = Append(@, [cmd |-> [kind |-> "copy_file",
                                              path |-> remote_path],
                                     res |-> ok]),
                  !.fs = IF ok THEN @ \cup {remote_path} ELSE @]

\* repr(val)[2:-1].replace('\'', '') of a str: repr puts the text in
\* quotes, so the slice drops the first character of the text
repr_slice(val) ==
    SelectSeq(IF val = <<>> THEN <<>> ELSE Tail(val), LAMBDA c : c # "'")

\* the last part of put_kv_store: write val, read it back, compare
put_and_validate(r, field, val) ==
    LET p == kv_put(r, field, val, KV_STORE_PATH)
        g == kv_get(p.r, field, KV_STORE_PATH)
        response == normalize_spaces(g.out[2])
    IN  [r |-> g.r, out |-> Ret(val = response)]

\* a field is kept as field.split('_')
put_kv_store(r, username, pwd, field) ==
    LET res == path_exists(r, STORAGE_ENCLOSURE_PATH)
    IN  IF ~res.out
        THEN [r |-> res.r, out |-> Ret(FALSE)]
        ELSE IF field = <<"user">>
        THEN put_and_validate(res.r, field, username)
        ELSE IF field \in {<<"password">>, <<"secret">>}
        THEN LET e1 == path_exists(res.r, ENCRYPTOR_PATH)
                 c == IF e1.out THEN e1.r
                      ELSE copy_file_to_remote(e1.r, ENCRYPTOR_PATH)
                 e2 == IF e1.out THEN e1 ELSE path_exists(c, ENCRYPTOR_PATH)
             IN  IF ~e2.out
                 THEN [r |-> e2.r, out |-> Ret(FALSE)]
                 ELSE LET m == IF e1.out THEN e1.r
                               ELSE change_file_mode(e2.r, ENCRYPTOR_PATH).r
                          cid == get_cluster_id(m)
                          words == str_split(cid.out[2])
                          cluster_id == IF words = <<>> THEN <<>>
                                        ELSE words[Len(words)]
                          enc == encrypt_pwd(cid.r, pwd, cluster_id)
                          enc_words == str_split(enc.out[2])
                      IN  IF enc_words = <<>>
                          THEN [r |-> enc.r, out |-> Raise(Exc("IndexError", 1))]
                          ELSE put_and_validate(
                                   enc.r, field,
                                   repr_slice(enc_words[Len(enc_words)]))
        ELSE IF field[1] \notin {"primary", "secondary"}
        THEN [r |-> res.r, out |-> Ret(FALSE)]
        ELSE LET lin == IF field[1] = "primary" THEN 2 ELSE 1
                 str_f == field[Len(field)]
                 sed == execute_cmd(res.r, [kind |-> "sed", str_f |-> str_f,
                                            lin |-> lin])
             IN  put_and_validate(sed.r, field, normalize_spaces(sed.out[2]))

\* update_threshold_values that puts the value whatever update is
update_threshold_values_always_put(r, kv_store_path, field, value, update) ==
    LET p == kv_put(r, field, py_format(value), kv_store_path).r
        g == kv_get(p, field, kv_store_path)
        response == g.out[2]
    IN  IF value.type = "int"
        THEN IF ~IsIntText(response)
             THEN [r |-> g.r, out |-> Raise(Exc("ValueError", 1))]
             ELSE [r |-> g.r, out |-> Ret(value.int = str_to_int(response))]
        ELSE [r |-> g.r, out |-> Ret(str_strip(value.str) = str_strip(response))]

update_threshold_values(r, kv_store_path, field, value, update) ==
    LET p == IF update
             THEN kv_put(r, field, py_format(value), kv_store_path).r
             ELSE r
        g == kv_get(p, field, kv_store_path)
        response == g.out[2]
    IN  IF value.type = "int"
        THEN IF ~IsIntText(response)
             THEN [r |-> g.r, out |-> Raise(Exc("ValueError", 1))]
             ELSE [r |-> g.r, out |-> Ret(value.int = str_to_int(response))]
        ELSE [r |-> g.r, out |-> Ret(str_strip(value.str) = str_strip(response))]

\* a call of a collaborator that is not a command of execute_cmd; the
\* answer is the environment's
collaborator_call(r, cmd) ==
    [r |-> [r EXCEPT !.log = Append(@, [cmd |-> cmd, res |-> r.env[cmd.kind]])],
     out |-> r.env[cmd.kind]]

\* self.s3obj.copy_s3server_file(file_path, local_path, ...): the answer is
\* (status, text of the remote file); a text is the set of the patterns
\* that occur in it
copy_s3server_file(r, file_path) ==
    collaborator_call(r, [kind |-> "copy_s3server_file", path |-> file_path])

\* the local copy after copy_s3server_file: temp_file was removed before
\* the copy, so it exists only if the copy succeeded
LocalFile(res) == IF res[1] THEN [text |-> res[2]] ELSE None

\* the loop of validate_alert_msg from the k-th pattern on; every pass
\* opens and reads the local file
RECURSIVE match_patterns(_, _, _, _, _)
match_patterns(r, local, pattern_lst, k, response) ==
    IF k > Len(pattern_lst)
    THEN [r |-> r, out |-> Ret(<<TRUE, response>>)]
    ELSE IF local = None
    THEN [r |-> r, out |-> Raise(Exc("FileNotFoundError", 2))]
    ELSE LET pattern == pattern_lst[k]
             found == pattern \in local.text
             r1 == [r EXCEPT !.log = Append(@, [cmd |-> [kind |-> "read_local",
                                                         pattern |-> pattern],
                                                res |-> found])]
         IN  IF found
             THEN match_patterns(r1, local, pattern_lst, k + 1, pattern)
             ELSE [r |-> r1, out |-> Ret(<<FALSE, pattern>>)]

\* validate_alert_msg that looks for the first pattern only
validate_alert_msg_first_only(r, remote_file_path, pattern_lst) ==
    LET res == copy_s3server_file(r, remote_file_path)
    IN  match_patterns(res.r, LocalFile(res.out),
                       IF pattern_lst = <<>> THEN <<>> ELSE <<pattern_lst[1]>>,
                       1, None)

validate_alert_msg(r, remote_file_path, pattern_lst) ==
    LET res == copy_s3server_file(r, remote_file_path)
    IN  match_patterns(res.r, LocalFile(res.out), pattern_lst, 1, None)

\* RAS_VAL["ras_sspl_alert"]["file"]
screen_log == "/root/screen.log"
alert_log_file == "/root/alert.log"
extracted_alert_file == "/root/extracted_alert.log"

\* self.health_obj.restart_pcs_resource(sspl_resource_id); the result is
\* not looked at
restart_pcs_resource(r) ==
    collaborator_call(r, [kind |-> "restart_pcs_resource"]).r

\* self.s3obj.get_s3server_service_status(service, ...)
get_s3server_service_status(r, service) ==
    collaborator_call(r, [kind |-> service])

\* self.node_utils.read_file(filename, local_path)
read_file(r, filename) ==
    [r EXCEPT !.log = Append(@, [cmd |-> [kind |-> "read_file",
                                          path |-> filename],
                                 res |-> <<TRUE, "">>])]

\* alert_validation after the restart: the two service checks, the copy of
\* the screen log, the extraction of the alert lines, the patterns
alert_checks(r, string_list) ==
    LET sspl == get_s3server_service_status(r, "sspl_service")
        rabbitmq == get_s3server_service_status(sspl.r, "rabitmq_service")
        copy == execute_cmd(rabbitmq.r, [kind |-> "copy_screen_log",
                                         path |-> screen_log,
                                         backup_path |-> alert_log_file])
        read == read_file(copy.r, alert_log_file)
        extract == execute_cmd(read, [kind |-> "extract_log",
                                      pattern |-> string_list[1],
                                      path |-> extracted_alert_file])
        validate == validate_alert_msg(extract.r, extracted_alert_file,
                                       string_list)
        validated == [validate.r EXCEPT !.log =
                         Append(@, [cmd |-> [kind |-> "validate_alert_msg"],
                                    res |-> validate.out.val])]
    IN  IF ~sspl.out[1] THEN [r |-> sspl.r, out |-> Ret(sspl.out)]
        ELSE IF ~rabbitmq.out[1] THEN [r |-> rabbitmq.r, out |-> Ret(rabbitmq.out)]
        ELSE IF ~copy.out[1] THEN [r |-> copy.r, out |-> Ret(copy.out)]
        ELSE IF string_list = <<>>
        THEN [r |-> read, out |-> Raise(Exc("IndexError", 1))]
        ELSE IF ~extract.out[1] THEN [r |-> extract.r, out |-> Ret(extract.out)]
        ELSE IF validate.out.kind = "raise" THEN validate
        ELSE IF ~validate.out.val[1] THEN [r |-> validated, out |-> validate.out]
        ELSE [r |-> validated, out |-> Ret(<<TRUE, "Fetched alerts successfully">>)]

\* alert_validation that restarts the sspl resource whatever restart is
alert_validation_always_restart(r, string_list, restart) ==
    alert_checks(restart_pcs_resource(r), string_list)

alert_validation(r, string_list, restart) ==
    alert_checks(IF restart THEN restart_pcs_resource(r) ELSE r, string_list)

----------------------------------------------------------------------------
(* The remote node as the environment of RASCoreLib.                       *)

ErrOutput == <<"e", "r", "r", "\n">>
OkOutput == <<"o", "k", "\n">>

\* (status, output) answers to a command whose output is text
TextResults == {<<TRUE, OkOutput>>, <<TRUE, <<>> >>, <<FALSE, ErrOutput>>,
                <<FALSE, <<>> >>}

KvPutResults == {<<TRUE, PutOutput>>, <<FALSE, ErrOutput>>}
KvGetResults == {<<TRUE, <<>> >>, <<FALSE, ErrOutput>>}
ClusterIdResults == {<<TRUE, <<"i", "d", " ", "c", "7", "\n">> >>, <<FALSE, <<>> >>}
EncryptResults == {<<TRUE, <<"g", "A", "b", "'", "\n">> >>, <<FALSE, <<>> >>,
                   <<FALSE, ErrOutput>>}
SedResults == {<<TRUE, <<"1", "0", "\n">> >>, <<TRUE, <<" ", "1", "0", " ", "\n">> >>,
               <<TRUE, <<>> >>, <<FALSE, ErrOutput>>}

\* answers to `ipmitool sel info` and `ipmitool sdr list`: lists of lines
SelInfoLine(label, value) == [label |-> label, value |-> value]
SelInfoResults ==
    {<<TRUE, <<SelInfoLine("Version", 2), SelInfoLine("Percent Used", 12)>> >>,
     <<TRUE, <<SelInfoLine("Version", 2)>> >>,
     <<FALSE, <<>> >>,
     <<FALSE, <<SelInfoLine("Percent Used", 12)>> >>}
SdrListResults ==
    {<<TRUE, <<SelInfoLine("CPU1 Temp", 40), SelInfoLine("FAN1", 4900),
               SelInfoLine("FAN2", 5000)>> >>,
     <<TRUE, <<SelInfoLine("CPU1 Temp", 40)>> >>,
     <<FALSE, <<>> >>,
     <<FALSE, <<SelInfoLine("FAN1", 4900)>> >>}

\* the patterns of alerts and the texts a remote file may have
AlertPatterns == {"enclosure:fru:psu", "fault", "insertion"}
PatternLists == {<<>>, <<"fault">>, <<"enclosure:fru:psu", "fault">>,
                 <<"enclosure:fru:psu", "fault", "insertion">>}
CopyFileResults == {<<ok, text>> : ok \in BOOLEAN, text \in SUBSET AlertPatterns}
ServiceResults == {<<TRUE, "active">>, <<FALSE, "inactive">>}
ShellResults == {<<TRUE, "">>, <<FALSE, "error">>}

\* the answers when nothing else is chosen
DefaultEnv ==
    [create_dir_sftp |-> [i \in 1..MaxDepth |-> TRUE],
     copy_file |-> TRUE,
     kv_put |-> <<TRUE, PutOutput>>,
     kv_get |-> <<TRUE, <<>> >>,
     sed |-> <<TRUE, <<>> >>,
     get_cluster_id |-> <<TRUE, <<>> >>,
     encrypt |-> <<TRUE, <<>> >>,
     chmod |-> <<TRUE, <<>> >>,
     truncate |-> <<TRUE, <<>> >>,
     cp |-> <<TRUE, <<>> >>,
     install_screen |-> <<TRUE, <<>> >>,
     update_stat_file |-> <<TRUE, <<>> >>,
     mdadm |-> <<TRUE, <<>> >>,
     logger |-> <<TRUE, <<>> >>,
     sel_info |-> <<TRUE, <<>> >>,
     sdr_list |-> <<TRUE, <<>> >>,
     copy_s3server_file |-> <<TRUE, {}>>,
     restart_pcs_resource |-> <<TRUE, "">>,
     sspl_service |-> <<TRUE, "active">>,
     rabitmq_service |-> <<TRUE, "active">>,
     copy_screen_log |-> <<TRUE, "">>,
     extract_log |-> <<TRUE, "">>]

\* arguments the callers pass
Usernames == {<<"m", "g">>, <<"m", "g", " ">>}
Passwords == {<<"p", "w">>}
KvFields == {<<"user">>, <<"password">>, <<"secret">>, <<"primary", "ip">>,
             <<"secondary", "ip">>, <<"ip">>}
THRESHOLD_PATH == "sspl/config/NODEDATAMSGHANDLER"
ThresholdField == <<"disk", "usage", "threshold">>
ThresholdValues == {IntValue(10), StrValue(<<"1", "0">>), StrValue(<<" ", "7">>)}

KvKeys == {<<KV_STORE_PATH, f>> : f \in KvFields}
          \cup {<<THRESHOLD_PATH, ThresholdField>>}

\* the operations that return the result of their one command
CommandWrappers == {"truncate_file", "cp_file", "install_screen_on_machine",
                    "check_status_file", "change_file_mode", "get_cluster_id",
                    "encrypt_pwd", "kv_put", "kv_get", "run_mdadm_cmd",
                    "generate_log_err_alert"}

\* the command kind behind each of them
WrapperKind ==
    [truncate_file |-> "truncate", cp_file |-> "cp",
     install_screen_on_machine |-> "install_screen",
     check_status_file |-> "update_stat_file", change_file_mode |-> "chmod",
     get_cluster_id |-> "get_cluster_id", encrypt_pwd |-> "encrypt",
     kv_put |-> "kv_put", kv_get |-> "kv_get", run_mdadm_cmd |-> "mdadm",
     generate_log_err_alert |-> "logger"]

\* a call of one of them with the arguments of the model
CallWrapper(op, r) ==
    CASE op = "truncate_file" -> truncate_file(r, RemotePath(1))
      [] op = "cp_file" -> cp_file(r, RemotePath(1), RemotePath(2))
      [] op = "install_screen_on_machine" -> install_screen_on_machine(r)
      [] op = "check_status_file" -> check_status_file(r)
      [] op = "change_file_mode" -> change_file_mode(r, RemotePath(1))
      [] op = "get_cluster_id" -> get_cluster_id(r)
      [] op = "encrypt_pwd" -> encrypt_pwd(r, <<"p", "w">>, <<"c", "7">>)
      [] op = "kv_put" -> kv_put(r, <<"user">>, <<"m", "g">>, KV_STORE_PATH)
      [] op = "kv_get" -> kv_get(r, <<"user">>, KV_STORE_PATH)
      [] op = "run_mdadm_cmd" -> run_mdadm_cmd(r, <<"--detail">>)
      [] op = "generate_log_err_alert" -> generate_log_err_alert(r, "logger")

\* the node at the start of a call, with the answers env ahead
RasState(env) == [fs |-> remote_fs, kv |-> kv_store, log |-> <<>>, env |-> env]

\* the call op(args) ran with result res
RasCommit(op, args, res) ==
    /\ ras_calls < MaxRasCalls
    /\ ras_calls' = ras_calls + 1
    /\ remote_fs' = res.r.fs
    /\ kv_store' = res.r.kv
    /\ ras_log' = res.r.log
    /\ ras_call_rec' = [op |-> op, args |-> args, out |-> res.out]
    /\ ras_pc' = "returned"
    /\ UNCHANGED <<rest_vars, bundle_vars>>

RasInit ==
    /\ remote_fs = {Root}
    /\ kv_store = [k \in KvKeys |-> None]
    /\ ras_pc = "idle"
    /\ ras_calls = 0
    /\ ras_call_rec = NoCall
    /\ ras_log = <<>>

CallCreateRemoteDirRecursive ==
    /\ ras_pc = "idle"
    /\ \E file_path \in RemotePaths, resps \in [1..MaxDepth -> BOOLEAN] :
          RasCommit("create_remote_dir_recursive", [file_path |-> file_path],
                    create_remote_dir_recursive(
                        RasState([DefaultEnv EXCEPT !.create_dir_sftp = resps]),
                        file_path))

CallCommandWrapper ==
    /\ ras_pc = "idle"
    /\ \E op \in CommandWrappers :
          \E ans \in CASE op = "kv_put" -> KvPutResults
                       [] op = "kv_get" -> KvGetResults
                       [] OTHER -> TextResults :
             LET res == CallWrapper(op, RasState([DefaultEnv EXCEPT
                                                    ![WrapperKind[op]] = ans]))
             IN  RasCommit(op, None, [r |-> res.r, out |-> Ret(res.out)])

CallCalSelSpace ==
    /\ ras_pc = "idle"
    /\ \E ans \in SelInfoResults :
          RasCommit("cal_sel_space", None,
                    cal_sel_space(RasState([DefaultEnv EXCEPT !.sel_info = ans])))

CallGetFanName ==
    /\ ras_pc = "idle"
    /\ \E ans \in SdrListResults :
          RasCommit("get_fan_name", None,
                    get_fan_name(RasState([DefaultEnv EXCEPT !.sdr_list = ans])))

CallPutKvStore ==
    /\ ras_pc = "idle"
    /\ \E username \in Usernames, pwd \in Passwords, field \in KvFields,
          put \in KvPutResults, get \in KvGetResults :
          \E copy \in IF field \in {<<"password">>, <<"secret">>}
                      THEN BOOLEAN ELSE {TRUE},
             cid \in IF field \in {<<"password">>, <<"secret">>}
                     THEN ClusterIdResults ELSE {<<TRUE, <<>> >>},
             enc \in IF field \in {<<"password">>, <<"secret">>}
                     THEN EncryptResults ELSE {<<TRUE, <<>> >>},
             sed \in IF field[1] \in {"primary", "secondary"}
                     THEN SedResults ELSE {<<TRUE, <<>> >>} :
             RasCommit("put_kv_store",
                       [username |-> username, pwd |-> pwd, field |-> field],
                       put_kv_store(
                           RasState([DefaultEnv EXCEPT
                                       !.kv_put = put, !.kv_get = get,
                                       !.copy_file = copy, !.get_cluster_id = cid,
                                       !.encrypt = enc, !.sed = sed]),
                           username, pwd, field))

CallUpdateThresholdValues ==
    /\ ras_pc = "idle"
    /\ \E value \in ThresholdValues, update \in BOOLEAN,
          put \in KvPutResults, get \in KvGetResults :
          RasCommit("update_threshold_values",
                    [kv_store_path |-> THRESHOLD_PATH, field |-> ThresholdField,
                     value |-> value, update |-> update],
                    update_threshold_values(
                        RasState([DefaultEnv EXCEPT !.kv_put = put,
                                                    !.kv_get = get]),
                        THRESHOLD_PATH, ThresholdField, value, update))

CallValidateAlertMsg ==
    /\ ras_pc = "idle"
    /\ \E pattern_lst \in PatternLists, copy \in CopyFileResults :
          RasCommit("validate_alert_msg", [pattern_lst |-> pattern_lst],
                    validate_alert_msg(
                        RasState([DefaultEnv EXCEPT !.copy_s3server_file = copy]),
                        extracted_alert_file, pattern_lst))

CallAlertValidation ==
    /\ ras_pc = "idle"
    /\ \E string_list \in PatternLists, restart \in BOOLEAN,
          sspl \in ServiceResults, rabbitmq \in ServiceResults,
          copy_log \in ShellResults, extract \in ShellResults,
          copy \in CopyFileResults :
          RasCommit("alert_validation",
                    [string_list |-> string_list, restart |-> restart],
                    alert_validation(
                        RasState([DefaultEnv EXCEPT
                                    !.sspl_service = sspl,
                                    !.rabitmq_service = rabbitmq,
                                    !.copy_screen_log = copy_log,
                                    !.extract_log = extract,
                                    !.copy_s3server_file = copy]),
                        string_list, restart))

\* the caller takes the result; the node keeps its state
RasReturn ==
    /\ ras_pc = "returned"
    /\ ras_pc' = "idle"
    /\ ras_call_rec' = NoCall
    /\ ras_log' = <<>>
    /\ UNCHANGED <<remote_fs, kv_store, ras_calls, rest_vars, bundle_vars>>

\* somebody else creates a path on the node, with the directories above it,
\* or removes one, with everything below it
NodeChangesPath ==
    /\ ras_pc = "idle"
    /\ \E path \in RemotePaths \cup {STORAGE_ENCLOSURE_PATH, ENCRYPTOR_PATH} :
          \/ remote_fs' = remote_fs \cup {path}
                          \cup (IF path \in RemotePaths THEN PathAncestors(path)
                                ELSE {})
          \/ remote_fs' = {q \in remote_fs :
                             ~(Len(q) >= Len(path)
                               /\ SubSeq(q, 1, Len(path)) = path)}
    /\ UNCHANGED <<kv_store, ras_pc, ras_calls, ras_call_rec, ras_log, rest_vars,
                   bundle_vars>>

RasNext ==
    \/ CallCreateRemoteDirRecursive
    \/ CallCommandWrapper
    \/ CallCalSelSpace
    \/ CallGetFanName
    \/ CallPutKvStore
    \/ CallUpdateThresholdValues
    \/ CallValidateAlertMsg
    \/ CallAlertValidation
    \/ RasReturn
    \/ NodeChangesPath

----------------------------------------------------------------------------
(* TestSupportBundle (tests/s3/test_support_bundle.py): its helpers.       *)

\* a list passed as an optional argument: None or a list
NoList == [none |-> TRUE]
TheList(l) == [list |-> l]

\* bool(x) of None or a list
ListTruthy(x) == "list" \in DOMAIN x /\ x.list # <<>>

\* `msg in text`, a text being the sequence of its phrases
Contains(text, msg) == \E i \in DOMAIN text : text[i] = msg

\* support_bundle_conf["support_bundle"]
success_msg == "S3 support bundle generated successfully"
cluster_msg_2 == "cluster is not currently running on this node"
clsuter_msg_1 == "Cluster stopped"

\* lst.append(*args): list.append takes exactly one argument
list_append(lst, args) ==
    IF Len(args) = 1
    THEN Ret(Append(lst, args[1]))
    ELSE Raise(Exc("TypeError", 1))

\* create_support_bundle(bundle_name, dest_dir, host_ip, resp_lst), resp
\* being what remote_execution returns for the bundle command.  The value
\* is [out |-> outcome, resp_lst |-> the list afterwards].
create_support_bundle(resp, lst) ==
    IF resp[1] /\ Contains(resp[2], success_msg)
    THEN IF ListTruthy(lst)
         THEN LET a == list_append(lst.list, <<TRUE, resp[2]>>)
              IN  IF a.kind = "raise"
                  THEN [out |-> a, resp_lst |-> lst]
                  ELSE [out |-> Ret(<<TRUE, resp[2]>>), resp_lst |-> TheList(a.val)]
         ELSE [out |-> Ret(<<TRUE, resp[2]>>), resp_lst |-> lst]
    ELSE IF ListTruthy(lst)
         THEN LET a == list_append(lst.list, <<FALSE, resp[2]>>)
              IN  IF a.kind = "raise"
                  THEN [out |-> a, resp_lst |-> lst]
                  ELSE [out |-> Ret(<<FALSE, resp[2]>>), resp_lst |-> TheList(a.val)]
         ELSE [out |-> Ret(<<FALSE, resp[2]>>), resp_lst |-> lst]

\* setup_method: self.host_obj = None, self.pysftp_obj = None; no other
\* statement of the class assigns them
host_obj == None
pysftp_obj == None
\* a connected client, for calls of the helpers from elsewhere
Connected == [connected |-> TRUE]

\* obj.method(...): an attribute of None cannot be looked up
attribute_call(obj) ==
    IF obj = None THEN Raise(Exc("AttributeError", 1)) ELSE Ret(TRUE)

\* stream.readlines(): the lines not read yet; the stream is then exhausted
readlines(stream) == [lines |-> stream, rest |-> <<>>]

\* result = stdout.readlines() if stdout.readlines() else stderr.readlines()
read_result(stdout, stderr) ==
    LET test == readlines(stdout)
    IN  IF test.lines # <<>>
        THEN readlines(test.rest).lines
        ELSE readlines(stderr).lines

\* pcs_start_stop_cluster(start_stop_cmd, status_cmd), with what the status
\* command writes to stdout and stderr
pcs_start_stop_cluster(host, stdout, stderr) ==
    LET result == read_result(stdout, stderr)
    IN  IF attribute_call(host).kind = "raise"
        THEN attribute_call(host)
        ELSE IF \E i \in DOMAIN result : Contains(result[i], cluster_msg_2)
        THEN Ret(<<FALSE, result>>)
        ELSE Ret(<<TRUE, result>>)

\* hctl_stop_cmd()
hctl_stop_cmd(host, stdout, stderr) ==
    LET result == read_result(stdout, stderr)
    IN  IF attribute_call(host).kind = "raise"
        THEN attribute_call(host)
        ELSE IF result = <<>>
        THEN Raise(Exc("IndexError", 1))
        ELSE IF Contains(result[1], clsuter_msg_1)
        THEN Ret(<<TRUE, result>>)
        ELSE Ret(<<FALSE, result>>)

\* a remote file: base name, time of last modification, md5 of its contents
RemoteFile(name, mtime, md5) == [name |-> name, mtime |-> mtime, md5 |-> md5]

\* validate_time_stamp(org_file_path, ext_file_path), sftp being
\* self.pysftp_obj
validate_time_stamp(sftp, org_file, ext_file) ==
    IF attribute_call(sftp).kind = "raise"
    THEN attribute_call(sftp)
    ELSE Ret(org_file.mtime = ext_file.mtime)

\* what remote_execution returns for md5cmd.format(file): (status, output)
md5_execution(file) == <<TRUE, <<file.md5, file.name>> >>

\* res[index].split()[0].strip(): element 0 of the pair is the status, a
\* bool, which has no split
checksum_word(res, index) ==
    IF index = 0
    THEN Raise(Exc("AttributeError", 1))
    ELSE IF res[2] = <<>> THEN Raise(Exc("IndexError", 1))
    ELSE Ret(res[2][1])

\* the loops of validate_file_checksum from the k-th pair on, the pairs
\* being taken in the order for org_file ... for ext_file ...
RECURSIVE validate_pairs(_, _, _, _)
validate_pairs(sftp, org_m0trace_lst, x_m0trace_lst, k) ==
    IF k > Len(org_m0trace_lst) * Len(x_m0trace_lst)
    THEN Ret(TRUE)
    ELSE
    LET org_file == org_m0trace_lst[((k - 1) \div Len(x_m0trace_lst)) + 1]
        ext_file == x_m0trace_lst[((k - 1) % Len(x_m0trace_lst)) + 1]
        rest == validate_pairs(sftp, org_m0trace_lst, x_m0trace_lst, k + 1)
    IN  IF org_file.name # ext_file.name
        THEN rest
        ELSE
        LET stamp == validate_time_stamp(sftp, org_file, ext_file)
            cheksum_res_1 == checksum_word(md5_execution(org_file), 0)
            cheksum_res_2 == checksum_word(md5_execution(ext_file), 0)
        IN  IF stamp.kind = "raise" THEN stamp
            ELSE IF ~stamp.val THEN rest
            ELSE IF cheksum_res_1.kind = "raise" THEN cheksum_res_1
            ELSE IF cheksum_res_2.kind = "raise" THEN cheksum_res_2
            ELSE IF cheksum_res_1.val # cheksum_res_2.val THEN Ret(FALSE)
            ELSE rest

validate_file_checksum(sftp, org_m0trace_lst, x_m0trace_lst) ==
    validate_pairs(sftp, org_m0trace_lst, x_m0trace_lst, 1)

----------------------------------------------------------------------------
(* The test methods.  A body is the sequence of its steps, loops unrolled  *)
(* LoopCount times.  A step is [op, name, on_true, on_false, arg]: what it *)
(* calls, and where the test goes when the call's status is true or false: *)
(* "next" (go on), "fail" (the assertion on the status fails), "break"     *)
(* (leave the loop).                                                       *)

Step(op, name, on_true, on_false, arg) ==
    [op |-> op, name |-> name, on_true |-> on_true, on_false |-> on_false,
     arg |-> arg]

\* resp = f(...); assert_true(resp[0], resp[1])
AssertTrue(op, name) == Step(op, name, "next", "fail", 0)
\* resp = f(...); assert_false(resp[0], resp[1])
AssertFalse(op, name) == Step(op, name, "fail", "next", 0)
\* f(...), the result not looked at
Plain(op, name) == Step(op, name, "next", "next", 0)

\* resp = self.node_obj.make_dir(path); assert_true(resp, path)
MakeDir == AssertTrue("make_dir", "make_dir")
\* self.file_lst.append(path)
AppendPath == Plain("append", "file_lst.append")
\* resp = self.create_support_bundle(...); assert_true(resp[0], resp[1])
CreateBundle == AssertTrue("create_support_bundle", "create_support_bundle")
\* resp = S3H_OBJ.is_s3_server_path_exists(path); assert_true(resp[0], resp[1])
PathExists == AssertTrue("path_exists", "is_s3_server_path_exists")
\* self.remote_execution(...)
RemoteExec(name) == Plain("exec", name)
\* resp = a helper that calls self.pysftp_obj; assert_true(resp[0], resp[1])
UseSftp(name) == AssertTrue("sftp", name)

RECURSIVE Repeat(_, _)
Repeat(steps, n) == IF n = 0 THEN <<>> ELSE steps \o Repeat(steps, n - 1)

test_dest_has_less_space_5274 ==
    <<MakeDir, AppendPath>>
    \o Repeat(<<Step("create_support_bundle", "create_support_bundle",
                     "fail", "break", 0)>>, LoopCount)

StartProcess(i) == Step("start", "process.start", "next", "next", i)
JoinProcess(i) == Step("join", "process.join", "next", "next", i)

test_collect_triggered_simultaneously_5280 ==
    <<MakeDir, AppendPath, Plain("manager_list", "manager.list")>>
    \o [i \in 1..LoopCount |-> StartProcess(i)]
    \o [i \in 1..LoopCount |-> JoinProcess(i)]
    \o <<AssertTrue("evaluate", "all(resp_lst)")>>

test_core_m0traces_all_instances_5282 ==
    <<MakeDir, AppendPath>>
    \o Repeat(<<CreateBundle, RemoteExec("mkdir"), RemoteExec("tar"),
                Plain("sftp", "pysftp_obj.listdir"),
                UseSftp("get_s3_instaces_and_ism0exists"),
                UseSftp("compare_files")>>, LoopCount)

test_collection_with_network_fluctuation_5272 ==
    <<MakeDir, AppendPath, Plain("manager_list", "manager.list"),
      StartProcess(1),
      Plain("exec", "restart_s3server_service"),
      AssertTrue("check", "get_s3server_service_status"),
      AssertTrue("evaluate", "all(resp_lst)"),
      AssertFalse("path_exists", "is_s3_server_path_exists")>>

test_collecion_primary_secondary_nodes_5273 ==
    <<MakeDir, AppendPath>>
    \o Repeat(<<CreateBundle, PathExists, Plain("exec", "node_obj.connect"),
                Plain("host", "host_obj.open_sftp"),
                Plain("exec", "delete_remote_dir")>>, 2)

test_collet_authservice_down_5276 ==
    <<MakeDir, AppendPath,
      AssertFalse("check", "start_stop_service"),
      CreateBundle, PathExists,
      AssertTrue("check", "start_stop_service")>>

test_collection_haproxy_down_5277 ==
    <<MakeDir, AppendPath,
      AssertFalse("check", "start_stop_service"),
      CreateBundle, PathExists,
      AssertTrue("check", "start_stop_service")>>

test_collection_cluster_down_5278 ==
    <<MakeDir, AppendPath,
      Step("set_pcs_start", "pcs_start = False", "next", "next", 0),
      AssertTrue("hctl_stop", "hctl_stop_cmd"),
      CreateBundle, PathExists>>

\* test_collection_one_after_other_5279 without the assertion on what
\* create_support_bundle returns
test_collection_one_after_other_5279_unasserted ==
    <<MakeDir, AppendPath>>
    \o Repeat(<<Plain("create_support_bundle", "create_support_bundle"),
                PathExists>>, LoopCount)

test_collection_one_after_other_5279 ==
    <<MakeDir, AppendPath>> \o Repeat(<<CreateBundle, PathExists>>, LoopCount)

test_s3server_logs_all_instances_5281 ==
    <<MakeDir, AppendPath, CreateBundle, PathExists, RemoteExec("tar"),
      RemoteExec("tar"),
      UseSftp("get_s3_instaces_and_ism0exists")>>

test_authserver_logs_5283 ==
    <<MakeDir, AppendPath, CreateBundle, PathExists, RemoteExec("tar"),
      UseSftp("is_file_size")>>

test_haproxy_logs_5284 ==
    <<MakeDir, AppendPath, CreateBundle, PathExists, RemoteExec("tar"),
      UseSftp("is_file_size")>>

test_collection_s3server_down_5275 ==
    <<MakeDir, AppendPath,
      Step("set_pcs_start", "pcs_start = False", "next", "next", 0),
      AssertTrue("check", "enable_disable_s3server_instances"),
      AssertFalse("check", "check_s3services_online"),
      CreateBundle, PathExists,
      AssertTrue("check", "enable_disable_s3server_instances"),
      Step("set_pcs_start", "pcs_start = True", "next", "next", 1)>>

test_collection_script_5270 ==
    <<MakeDir, AppendPath, CreateBundle, PathExists>>

test_system_configs_5285 ==
    <<MakeDir, AppendPath, CreateBundle, RemoteExec("tar")>>
    \o Repeat(<<PathExists>>, LoopCount)
    \o <<AssertTrue("validate_file_checksum", "validate_file_checksum")>>

test_collect_system_info_stats_5286 ==
    <<MakeDir, AppendPath, CreateBundle, RemoteExec("tar"),
      Plain("sftp", "pysftp_obj.listdir")>>
    \o Repeat(<<PathExists>>, LoopCount)
    \o Repeat(<<UseSftp("is_file_size")>>, LoopCount)

Tests == {"test_dest_has_less_space_5274",
          "test_collect_triggered_simultaneously_5280",
          "test_core_m0traces_all_instances_5282",
          "test_collection_with_network_fluctuation_5272",
          "test_collecion_primary_secondary_nodes_5273",
          "test_collet_authservice_down_5276",
          "test_collection_haproxy_down_5277",
          "test_collection_cluster_down_5278",
          "test_collection_one_after_other_5279",
          "test_s3server_logs_all_instances_5281",
          "test_authserver_logs_5283",
          "test_haproxy_logs_5284",
          "test_collection_s3server_down_5275",
          "test_collection_script_5270",
          "test_system_configs_5285",
          "test_collect_system_info_stats_5286"}

Body(t) ==
    CASE t = "test_dest_has_less_space_5274" -> test_dest_has_less_space_5274
      [] t = "test_collect_triggered_simultaneously_5280" ->
            test_collect_triggered_simultaneously_5280
      [] t = "test_core_m0traces_all_instances_5282" ->
            test_core_m0traces_all_instances_5282
      [] t = "test_collection_with_network_fluctuation_5272" ->
            test_collection_with_network_fluctuation_5272
      [] t = "test_collecion_primary_secondary_nodes_5273" ->
            test_collecion_primary_secondary_nodes_5273
      [] t = "test_collet_authservice_down_5276" -> test_collet_authservice_down_5276
      [] t = "test_collection_haproxy_down_5277" -> test_collection_haproxy_down_5277
      [] t = "test_collection_cluster_down_5278" -> test_collection_cluster_down_5278
      [] t = "test_collection_one_after_other_5279" ->
            test_collection_one_after_other_5279
      [] t = "test_s3server_logs_all_instances_5281" ->
            test_s3server_logs_all_instances_5281
      [] t = "test_authserver_logs_5283" -> test_authserver_logs_5283
      [] t = "test_haproxy_logs_5284" -> test_haproxy_logs_5284
      [] t = "test_collection_s3server_down_5275" -> test_collection_s3server_down_5275
      [] t = "test_collection_script_5270" -> test_collection_script_5270
      [] t = "test_system_configs_5285" -> test_system_configs_5285
      [] t = "test_collect_system_info_stats_5286" ->
            test_collect_system_info_stats_5286
      [] OTHER -> <<>>

\* os.path.join(common_dir, self.sys_bundle_dir) of the test's configuration
PathOf(t) == <<"common_dir", t>>

\* what remote_execution returns for the bundle command: (status, output)
RemoteResults == {<<TRUE, <<success_msg>>>>, <<TRUE, <<"No space left on device">>>>,
                  <<FALSE, <<"Connection refused">>>>}

\* what the status command writes to one of its streams
Streams == {<<>>, <<<<cluster_msg_2>>>>, <<<<clsuter_msg_1>>>>}

NewProcess == [st |-> "new", out |-> [kind |-> "none"]]

\* one thing teardown_method does
Did(act, path) == [act |-> act, path |-> path]

\* teardown_method(), on the instance's pcs_start and the class's file_lst;
\* the value is what it did, pcs_start afterwards and how it ended
teardown_method(lst, pcs, host, stdout, stderr) ==
    LET enable == <<Did("enable_disable_s3server_instances", <<>>)>>
        resp == pcs_start_stop_cluster(host, stdout, stderr)
        deletes == [i \in DOMAIN lst |-> Did("delete_remote_dir", lst[i])]
        rest == deletes \o <<Did("disconnect", <<>>), Did("rm_tmp_bundle_cmd", <<>>)>>
    IN  IF ~pcs
        THEN IF resp.kind = "raise"
             THEN [log |-> enable, pcs_start |-> pcs, out |-> resp]
             ELSE [log |-> enable \o <<Did("cluster_start_cmd", <<>>)>> \o rest,
                   pcs_start |-> resp.val[1], out |-> Ret(None)]
        ELSE [log |-> rest, pcs_start |-> pcs, out |-> Ret(None)]

NoBundleCall == [op |-> "none"]

BundleInit ==
    /\ file_lst = <<>>
    /\ pcs_start = TRUE
    /\ cur_test = "none"
    /\ test_phase = "none"
    /\ test_pc = 0
    /\ verdict = "none"
    /\ trace = <<>>
    /\ resp_lst = <<>>
    /\ process_lst = [i \in 1..LoopCount |-> NewProcess]
    /\ teardown_log = <<>>
    /\ file_lst_at_start = <<>>
    /\ tests_run = 0
    /\ bundle_call_rec = NoBundleCall

\* pytest makes a new instance, runs setup_method and enters the test
StartTest ==
    /\ test_phase \in {"none", "torn_down"}
    /\ bundle_call_rec = NoBundleCall
    /\ tests_run < MaxTests
    /\ \E t \in Tests :
        /\ cur_test' = t
        /\ test_pc' = 1
    /\ test_phase' = "body"
    /\ verdict' = "running"
    /\ pcs_start' = TRUE
    /\ trace' = <<>>
    /\ resp_lst' = <<>>
    /\ process_lst' = [i \in 1..LoopCount |-> NewProcess]
    /\ teardown_log' = <<>>
    /\ file_lst_at_start' = file_lst
    /\ tests_run' = tests_run + 1
    /\ UNCHANGED <<file_lst, bundle_call_rec, rest_vars, ras_vars>>

InBody == test_phase = "body" /\ test_pc \in DOMAIN Body(cur_test)
CurStep == Body(cur_test)[test_pc]
AtStep(op) == InBody /\ CurStep.op = op

Executed(status, raised) ==
    [pc |-> test_pc, op |-> CurStep.op, name |-> CurStep.name, status |-> status,
     raised |-> raised]

\* the step returned `status`: the test goes where the step says
Finish(status) ==
    LET to == IF status THEN CurStep.on_true ELSE CurStep.on_false
        pc2 == CASE to = "next" -> test_pc + 1
                 [] to = "break" -> Len(Body(cur_test)) + 1
                 [] OTHER -> test_pc
    IN  /\ trace' = Append(trace, Executed(status, FALSE))
        /\ test_pc' = pc2
        /\ verdict' = IF to = "fail" THEN "failed"
                      ELSE IF pc2 > Len(Body(cur_test)) THEN "passed"
                      ELSE "running"
        /\ test_phase' = IF to = "fail" \/ pc2 > Len(Body(cur_test))
                         THEN "ended" ELSE "body"

\* the step raised: the exception leaves the test method
Raised ==
    /\ trace' = Append(trace, Executed(FALSE, TRUE))
    /\ verdict' = "failed"
    /\ test_phase' = "ended"
    /\ UNCHANGED test_pc

StepFrame == UNCHANGED <<cur_test, teardown_log, file_lst_at_start, tests_run,
                         bundle_call_rec, rest_vars, ras_vars>>

StepMakeDir ==
    /\ AtStep("make_dir")
    /\ \E status \in BOOLEAN : Finish(status)
    /\ StepFrame
    /\ UNCHANGED <<file_lst, pcs_start, resp_lst, process_lst>>

StepAppendPath ==
    /\ AtStep("append")
    /\ file_lst' = Append(file_lst, PathOf(cur_test))
    /\ Finish(TRUE)
    /\ StepFrame
    /\ UNCHANGED <<pcs_start, resp_lst, process_lst>>

StepCreateSupportBundle ==
    /\ AtStep("create_support_bundle")
    /\ \E resp \in RemoteResults :
        Finish(create_support_bundle(resp, NoList).out.val[1])
    /\ StepFrame
    /\ UNCHANGED <<file_lst, pcs_start, resp_lst, process_lst>>

StepPathExists ==
    /\ AtStep("path_exists")
    /\ \E status \in BOOLEAN : Finish(status)
    /\ StepFrame
    /\ UNCHANGED <<file_lst, pcs_start, resp_lst, process_lst>>

StepCheck ==
    /\ AtStep("check")
    /\ \E status \in BOOLEAN : Finish(status)
    /\ StepFrame
    /\ UNCHANGED <<file_lst, pcs_start, resp_lst, process_lst>>

StepRemoteExec ==
    /\ AtStep("exec")
    /\ Finish(TRUE)
    /\ StepFrame
    /\ UNCHANGED <<file_lst, pcs_start, resp_lst, process_lst>>

StepSetPcsStart ==
    /\ AtStep("set_pcs_start")
    /\ pcs_start' = (CurStep.arg = 1)
    /\ Finish(TRUE)
    /\ StepFrame
    /\ UNCHANGED <<file_lst, resp_lst, process_lst>>

\* a step that calls a method of self.pysftp_obj or self.host_obj
StepRemoteObject ==
    /\ InBody
    /\ CurStep.op \in {"sftp", "host"}
    /\ LET obj == IF CurStep.op = "sftp" THEN pysftp_obj ELSE host_obj
       IN  IF attribute_call(obj).kind = "raise"
           THEN Raised
           ELSE \E status \in BOOLEAN : Finish(status)
    /\ StepFrame
    /\ UNCHANGED <<file_lst, pcs_start, resp_lst, process_lst>>

StepHctlStop ==
    /\ AtStep("hctl_stop")
    /\ \E stdout \in Streams, stderr \in Streams :
        LET resp == hctl_stop_cmd(host_obj, stdout, stderr)
        IN  IF resp.kind = "raise" THEN Raised ELSE Finish(resp.val[1])
    /\ StepFrame
    /\ UNCHANGED <<file_lst, pcs_start, resp_lst, process_lst>>

\* validate_file_checksum reads the time stamps through self.pysftp_obj
\* for each pair of files that have the same base name
StepValidateFileChecksum ==
    /\ AtStep("validate_file_checksum")
    /\ \E same_name \in BOOLEAN :
        IF same_name /\ attribute_call(pysftp_obj).kind = "raise"
        THEN Raised
        ELSE Finish(TRUE)
    /\ StepFrame
    /\ UNCHANGED <<file_lst, pcs_start, resp_lst, process_lst>>

StepManagerList ==
    /\ AtStep("manager_list")
    /\ resp_lst' = <<>>
    /\ Finish(TRUE)
    /\ StepFrame
    /\ UNCHANGED <<file_lst, pcs_start, process_lst>>

StepStartProcess ==
    /\ AtStep("start")
    /\ process_lst' = [process_lst EXCEPT ![CurStep.arg].st = "started"]
    /\ Finish(TRUE)
    /\ StepFrame
    /\ UNCHANGED <<file_lst, pcs_start, resp_lst>>

\* process.join() returns when the process has ended
StepJoinProcess ==
    /\ AtStep("join")
    /\ process_lst[CurStep.arg].st = "done"
    /\ Finish(TRUE)
    /\ StepFrame
    /\ UNCHANGED <<file_lst, pcs_start, resp_lst, process_lst>>

\* true_flag = all([temp[0] for temp in resp_lst]); assert_true(true_flag, ...)
StepEvaluate ==
    /\ AtStep("evaluate")
    /\ Finish(\A i \in DOMAIN resp_lst : resp_lst[i][1])
    /\ StepFrame
    /\ UNCHANGED <<file_lst, pcs_start, resp_lst, process_lst>>

\* a started process runs create_support_bundle(..., resp_lst) and ends
ChildCreateSupportBundle ==
    \E i \in DOMAIN process_lst :
        /\ process_lst[i].st = "started"
        /\ \E resp \in RemoteResults :
            LET r == create_support_bundle(resp, TheList(resp_lst))
            IN  /\ resp_lst' = r.resp_lst.list
                /\ process_lst' = [process_lst EXCEPT ![i] = [st |-> "done", out |-> r.out]]
        /\ UNCHANGED <<file_lst, pcs_start, cur_test, test_phase, test_pc, verdict,
                       trace, teardown_log, file_lst_at_start, tests_run,
                       bundle_call_rec, rest_vars, ras_vars>>

TeardownMethod ==
    /\ test_phase = "ended"
    /\ \E stdout \in (IF pcs_start THEN {<<>>} ELSE Streams),
          stderr \in (IF pcs_start THEN {<<>>} ELSE Streams) :
        LET r == teardown_method(file_lst, pcs_start, host_obj, stdout, stderr)
        IN  /\ teardown_log' = IF r.out.kind = "raise"
                               THEN Append(r.log, Did("raise", <<r.out.exc.type>>))
                               ELSE r.log
            /\ pcs_start' = r.pcs_start
    /\ test_phase' = "torn_down"
    /\ UNCHANGED <<file_lst, cur_test, test_pc, verdict, trace, resp_lst, process_lst,
                   file_lst_at_start, tests_run, bundle_call_rec, rest_vars, ras_vars>>

\* the lists a caller may pass as resp_lst
ListArgs == {NoList, TheList(<<>>), TheList(<<<<TRUE, <<success_msg>>>>>>)}

\* create_support_bundle called on its own, between two tests
CallCreateSupportBundle ==
    /\ test_phase \in {"none", "torn_down"}
    /\ bundle_call_rec = NoBundleCall
    /\ \E resp \in RemoteResults, lst \in ListArgs :
        LET r == create_support_bundle(resp, lst)
        IN  bundle_call_rec' = [op |-> "create_support_bundle",
                                args |-> [resp |-> resp, resp_lst |-> lst],
                                out |-> r.out, resp_lst |-> r.resp_lst]
    /\ UNCHANGED <<file_lst, pcs_start, cur_test, test_phase, test_pc, verdict, trace,
                   resp_lst, process_lst, teardown_log, file_lst_at_start, tests_run,
                   rest_vars, ras_vars>>

\* the files of the node the lists name
BundleFiles ==
    {RemoteFile(n, m, d) : n \in {"a.conf", "b.conf"}, m \in 1..2,
                           d \in {"d1", "d2"}}
OriginalLists == {<<RemoteFile("a.conf", 1, "d1")>>}
ExtractedLists ==
    {<<f>> : f \in BundleFiles}
    \cup {<<RemoteFile("b.conf", 1, "d1"), f>> : f \in BundleFiles}

\* self.host_obj or self.pysftp_obj: None as setup_method leaves it, or
\* the client of a caller that connected it
RemoteObjects == {None, Connected}

\* a helper called on its own, between two tests
BundleCall(op, args, out) ==
    /\ test_phase \in {"none", "torn_down"}
    /\ bundle_call_rec = NoBundleCall
    /\ bundle_call_rec' = [op |-> op, args |-> args, out |-> out,
                           resp_lst |-> NoList]
    /\ UNCHANGED <<file_lst, pcs_start, cur_test, test_phase, test_pc, verdict, trace,
                   resp_lst, process_lst, teardown_log, file_lst_at_start, tests_run,
                   rest_vars, ras_vars>>

CallValidateFileChecksum ==
    \E sftp \in RemoteObjects, org \in OriginalLists, ext \in ExtractedLists :
        BundleCall("validate_file_checksum",
                   [sftp |-> sftp, org_m0trace_lst |-> org, x_m0trace_lst |-> ext],
                   validate_file_checksum(sftp, org, ext))

CallPcsStartStopCluster ==
    \E host \in RemoteObjects, stdout \in Streams, stderr \in Streams :
        BundleCall("pcs_start_stop_cluster",
                   [host |-> host, stdout |-> stdout, stderr |-> stderr],
                   pcs_start_stop_cluster(host, stdout, stderr))

CallHctlStopCmd ==
    \E host \in RemoteObjects, stdout \in Streams, stderr \in Streams :
        BundleCall("hctl_stop_cmd",
                   [host |-> host, stdout |-> stdout, stderr |-> stderr],
                   hctl_stop_cmd(host, stdout, stderr))

BundleReturn ==
    /\ bundle_call_rec # NoBundleCall
    /\ bundle_call_rec' = NoBundleCall
    /\ UNCHANGED <<file_lst, pcs_start, cur_test, test_phase, test_pc, verdict, trace,
                   resp_lst, process_lst, teardown_log, file_lst_at_start, tests_run,
                   rest_vars, ras_vars>>

BundleNext ==
    \/ StartTest
    \/ StepMakeDir
    \/ StepAppendPath
    \/ StepCreateSupportBundle
    \/ StepPathExists
    \/ StepCheck
    \/ StepRemoteExec
    \/ StepSetPcsStart
    \/ StepRemoteObject
    \/ StepHctlStop
    \/ StepValidateFileChecksum
    \/ StepManagerList
    \/ StepStartProcess
    \/ StepJoinProcess
    \/ StepEvaluate
    \/ ChildCreateSupportBundle
    \/ TeardownMethod
    \/ CallCreateSupportBundle
    \/ CallValidateFileChecksum
    \/ CallPcsStartStopCluster
    \/ CallHctlStopCmd
    \/ BundleReturn

----------------------------------------------------------------------------
(* The specifications: one per part, the other parts at rest.              *)

Init == RestInit /\ RasInit /\ BundleInit

SpecRest == Init /\ [][RestNext]_vars

SpecRas == Init /\ [][RasNext]_vars

SpecBundle == Init /\ [][BundleNext]_vars

----------------------------------------------------------------------------
(* Properties of RestS3user, checked under SpecRest.                       *)

\* the functions that build a request and pass the response through
PassThroughOps == {"create_s3_account", "list_all_created_s3account",
                   "edit_s3_account_user", "delete_s3_account_user",
                   "edit_s3_account_user_invalid_password"}

\* the answers of the server the call consumed, one per request
ConsumedAnswers == SubSeq(rest_call_rec.env, 1, Len(rest_requests))

\* C1: for each of the five pass-through functions, whenever an exception
\* is raised while the request is built or inside rest_call (an exception
\* without arguments included), the caller observes a CTException with the
\* code CSM_REST_AUTHENTICATION_ERROR: never another exception type, never
\* a normal return.
C1_AnyExceptionBecomesCTException ==
    rest_call_rec.op \in PassThroughOps =>
        /\ rest_call_rec.out.kind = "raise" =>
              /\ rest_call_rec.out.exc.type = "CTException"
              /\ rest_call_rec.out.exc.code = CSM_REST_AUTHENTICATION_ERROR
        /\ (\E i \in DOMAIN ConsumedAnswers : ConsumedAnswers[i].kind = "raise") =>
              rest_call_rec.out.kind = "raise"

\* the verb each function sends
VerbOf(op) ==
    CASE op = "create_s3_account" -> "post"
      [] op = "list_all_created_s3account" -> "get"
      [] op = "edit_s3_account_user" -> "patch"
      [] op = "delete_s3_account_user" -> "delete"

CrudOps == {"create_s3_account", "list_all_created_s3account",
            "edit_s3_account_user", "delete_s3_account_user"}

\* C6 as stated: a call of create_s3_account, list_all_created_s3account,
\* edit_s3_account_user or delete_s3_account_user that returns has issued
\* exactly one rest_call, with verb post, get, patch or delete, for every
\* user_type or payload; no request is issued twice within one call.
C6_ExactlyOneRestCall ==
    (rest_call_rec.op \in CrudOps /\ rest_call_rec.out.kind = "return") =>
        /\ Len(rest_requests) = 1
        /\ rest_requests[1].verb = VerbOf(rest_call_rec.op)

\* requests a call of the function issues when no exception stops it
RequestsOf(call) ==
    IF call.op = "create_s3_account" /\ call.args.user_type = "duplicate"
    THEN 2 ELSE 1

\* C6, amended: every request of a call has the verb of its function; a
\* call that returns has issued exactly one request, except that
\* create_s3_account with user_type "duplicate" has issued two posts with
\* the same payload to the same endpoint (the first creates the account to
\* duplicate); a call that raises has issued no more than that.
C6_OneRestCallButDuplicate ==
    rest_call_rec.op \in CrudOps =>
        /\ \A i \in DOMAIN rest_requests :
              rest_requests[i].verb = VerbOf(rest_call_rec.op)
        /\ Len(rest_requests) <= RequestsOf(rest_call_rec)
        /\ rest_call_rec.out.kind = "return" =>
              Len(rest_requests) = RequestsOf(rest_call_rec)
        /\ Len(rest_requests) = 2 =>
              /\ rest_requests[1].data = rest_requests[2].data
              /\ rest_requests[1].endpoint = rest_requests[2].endpoint

\* create_s3_account("duplicate") returned after its two posts
C6_DuplicateReturned ==
    /\ rest_call_rec.op = "create_s3_account"
    /\ rest_call_rec.args.user_type = "duplicate"
    /\ rest_call_rec.out.kind = "return"
    /\ Len(rest_requests) = 2

\* C9: create_and_verify_s3account with user "valid" and
\* edit_and_verify_s3_account_user with payload "valid" return True only if
\* the response holds both the access key and the secret key.
C9_TrueOnlyWithBothKeys ==
    /\ (/\ rest_call_rec.op = "create_and_verify_s3account"
        /\ rest_call_rec.args.user = "valid"
        /\ rest_call_rec.out = Ret(TRUE)) =>
            {ACCESS_KEY, SECRET_KEY} \subseteq DOMAIN rest_call_rec.env[1].val.json
    /\ (/\ rest_call_rec.op = "edit_and_verify_s3_account_user"
        /\ rest_call_rec.args.user_payload = "valid"
        /\ rest_call_rec.out = Ret(TRUE)) =>
            {ACCESS_KEY, SECRET_KEY} \subseteq DOMAIN rest_call_rec.env[2].val.json

\* what C10 says verify_list_s3account_details returns for a response with
\* status 200 and the s3_accounts field
ExpectedListVerdict(s3_accounts, expect_no_user) ==
    LET empty == Len(s3_accounts) = 0
    IN  IF empty /\ expect_no_user THEN TRUE
        ELSE IF empty # expect_no_user THEN FALSE
        ELSE \A i \in DOMAIN s3_accounts :
                {ACC_NAME, ACC_EMAIL} \subseteq DOMAIN s3_accounts[i]

\* C10: verify_list_s3account_details returns a boolean whenever the list
\* request is answered: False when the status is not 200 or s3_accounts is
\* absent; otherwise True for an empty list with expect_no_user, False when
\* exactly one of the two holds, and else True exactly when every listed
\* account has account_name and account_email.
C10_ListVerdictIsBoolean ==
    (/\ rest_call_rec.op = "verify_list_s3account_details"
     /\ rest_call_rec.env[1].kind = "return") =>
        LET response == rest_call_rec.env[1].val
        IN  IF response.status_code # SUCCESS_STATUS
               \/ S3_ACCOUNTS \notin DOMAIN response.json
            THEN rest_call_rec.out = Ret(FALSE)
            ELSE rest_call_rec.out =
                    Ret(ExpectedListVerdict(response.json[S3_ACCOUNTS],
                                            rest_call_rec.args.expect_no_user))

\* the answer to the last request of the call
LastAnswer == rest_call_rec.env[Len(rest_requests)]

AllAnswered ==
    \A i \in DOMAIN ConsumedAnswers : ConsumedAnswers[i].kind = "return"

\* C11: create_and_verify_s3account returns False and issues no request
\* when user is not one of "valid", "duplicate", "invalid", "missing"; for
\* "duplicate", "invalid" and "missing" it returns, whenever the server
\* answered its requests, and what it returns is whether the status code
\* of the create response equals expect_status_code.
C11_InvalidUserNoRequest ==
    rest_call_rec.op = "create_and_verify_s3account" =>
        /\ rest_call_rec.args.user \notin {"valid", "duplicate", "invalid", "missing"} =>
              /\ rest_call_rec.out = Ret(FALSE)
              /\ rest_requests = <<>>
        /\ rest_call_rec.args.user \in {"duplicate", "invalid", "missing"} =>
              /\ Len(rest_requests) >= 1
              /\ rest_call_rec.out.kind = "return" <=> AllAnswered
              /\ rest_call_rec.out.kind = "return" =>
                    rest_call_rec.out.val =
                       (LastAnswer.val.status_code
                          = rest_call_rec.args.expect_status_code)

\* a user that is not in self.user_type was refused without a request
C11_PredefineRefused ==
    /\ rest_call_rec.op = "create_and_verify_s3account"
    /\ rest_call_rec.args.user = "pre-define"
    /\ rest_call_rec.out = Ret(FALSE)
    /\ rest_requests = <<>>

\* what C12 requires of the PATCH answer for a True result
UnchangedAccessVerified(answer, account_name) ==
    /\ answer.kind = "return"
    /\ answer.val.status_code = SUCCESS_STATUS
    /\ ACC_NAME \in DOMAIN answer.val.json
    /\ answer.val.json[ACC_NAME] = account_name
    /\ ACCESS_KEY \notin DOMAIN answer.val.json
    /\ SECRET_KEY \notin DOMAIN answer.val.json

\* C12: edit_and_verify_s3_account_user with payload "unchanged_access" or
\* "only_password" returns True exactly when the PATCH response has status
\* 200, its account_name is the name of the account posted at the start
\* of the call, and neither access key nor secret key is in the response.
C12_UnchangedAccessVerdict ==
    (/\ rest_call_rec.op = "edit_and_verify_s3_account_user"
     /\ rest_call_rec.args.user_payload \in {"unchanged_access", "only_password"}) =>
        (rest_call_rec.out = Ret(TRUE)
           <=> /\ Len(rest_requests) = 2
               /\ UnchangedAccessVerified(rest_call_rec.env[2],
                                          rest_requests[1].data[ACC_NAME]))

\* an edit that left the access unchanged was verified
C12_UnchangedAccessTrue ==
    /\ rest_call_rec.op = "edit_and_verify_s3_account_user"
    /\ rest_call_rec.args.user_payload = "unchanged_access"
    /\ rest_call_rec.out = Ret(TRUE)

\* C13: delete_and_verify_s3_account_user posts the new account before it
\* sends the DELETE, addresses the DELETE to the account_name of the
\* payload just posted, and returns True exactly when the DELETE response
\* has status 200 and its message is DELETE_SUCCESS_MSG.
C13_DeleteAfterCreate ==
    rest_call_rec.op = "delete_and_verify_s3_account_user" =>
        /\ Len(rest_requests) \in 1..2
        /\ rest_requests[1].verb = "post"
        /\ Len(rest_requests) = 2 =>
              /\ rest_requests[2].verb = "delete"
              /\ rest_requests[2].endpoint =
                    s3accounts_endpoint \o <<rest_requests[1].data[ACC_NAME]>>
        /\ rest_call_rec.out = Ret(TRUE)
              <=> /\ Len(rest_requests) = 2
                  /\ rest_call_rec.env[2].kind = "return"
                  /\ rest_call_rec.env[2].val.status_code = SUCCESS_STATUS
                  /\ "message" \in DOMAIN rest_call_rec.env[2].val.json
                  /\ rest_call_rec.env[2].val.json["message"] = DELETE_SUCCESS_MSG

\* the account was created, deleted and the deletion verified
C13_DeletionVerified ==
    /\ rest_call_rec.op = "delete_and_verify_s3_account_user"
    /\ rest_call_rec.out = Ret(TRUE)
    /\ Len(rest_requests) = 2

----------------------------------------------------------------------------
(* Properties of RASCoreLib, checked under SpecRas.                        *)

\* the log entries of commands run by execute_cmd: their result is the
\* pair (status, output)
IsCommand(entry) ==
    entry.cmd.kind \notin {"path_exists", "create_dir_sftp", "copy_file"}

FailedCommands == {i \in DOMAIN ras_log : IsCommand(ras_log[i]) /\ ~ras_log[i].res[1]}

\* what an operation returns: the command's pair, a bare value, a boolean
ResultShape(op) ==
    CASE op \in CommandWrappers -> "pair"
      [] op \in {"cal_sel_space", "get_fan_name"} -> "bare"
      [] op \in {"put_kv_store", "update_threshold_values"} -> "bool"
      [] OTHER -> "none"

\* C7 as stated: an operation that runs a remote command reports a failure
\* of the command as a result whose first component is False, with the raw
\* output: never as success, never as a bare value, never ignored
\* (a False verdict of put_kv_store or update_threshold_values counts as
\* reported).
C7_CommandFailureReported ==
    (ResultShape(ras_call_rec.op) # "none" /\ FailedCommands # {}) =>
        /\ ras_call_rec.out.kind = "return"
        /\ \/ /\ ResultShape(ras_call_rec.op) = "pair"
              /\ \E i \in FailedCommands :
                    ras_call_rec.out.val = <<FALSE, ras_log[i].res[2]>>
           \/ /\ ResultShape(ras_call_rec.op) = "bool"
              /\ ras_call_rec.out.val = FALSE

\* the value the operation wrote, or was asked to check, and the text the
\* last kv_get printed
ReadBack == ras_log[Len(ras_log)].res[2]
ValueWritten == ras_log[Len(ras_log) - 1].cmd.val

\* C7, amended: an operation that wraps one command returns the pair
\* (status, output) of that command unchanged, so its failure arrives as
\* (False, raw output); cal_sel_space returns 0 and get_fan_name returns
\* None when their command fails; put_kv_store and update_threshold_values
\* do not look at the result of their kv_put: what they return is the
\* comparison of the value with the text kv_get reads back.
C7_FailureByShape ==
    /\ ras_call_rec.op \in CommandWrappers =>
          /\ Len(ras_log) = 1
          /\ ras_call_rec.out = Ret(ras_log[1].res)
    /\ (ras_call_rec.op = "cal_sel_space" /\ FailedCommands # {}) =>
          /\ ras_call_rec.out.kind = "return"
          /\ ras_call_rec.out.val = 0
    /\ (ras_call_rec.op = "get_fan_name" /\ FailedCommands # {}) =>
          /\ ras_call_rec.out.kind = "return"
          /\ ras_call_rec.out.val = None
    /\ (/\ ras_call_rec.op = "put_kv_store"
        /\ ras_call_rec.out.kind = "return"
        /\ ras_log[Len(ras_log)].cmd.kind = "kv_get") =>
          ras_call_rec.out.val = (ValueWritten = normalize_spaces(ReadBack))
    /\ (/\ ras_call_rec.op = "update_threshold_values"
        /\ ras_call_rec.out.kind = "return") =>
          LET value == ras_call_rec.args.value
          IN  ras_call_rec.out.val =
                 IF value.type = "int"
                 THEN value.int = str_to_int(ReadBack)
                 ELSE str_strip(value.str) = str_strip(ReadBack)

\* put_kv_store returned True although its kv_put failed
C7_TrueAfterFailedPut ==
    /\ ras_call_rec.op = "put_kv_store"
    /\ ras_call_rec.out = Ret(TRUE)
    /\ \E i \in FailedCommands : ras_log[i].cmd.kind = "kv_put"

\* put_kv_store got as far as reading the value back
ReadBackDone ==
    /\ Len(ras_log) >= 2
    /\ ras_log[Len(ras_log)].cmd.kind = "kv_get"
    /\ ras_log[Len(ras_log) - 1].cmd.kind = "kv_put"

\* the kv put of the call failed and the store holds another value
PutLostAndStoreDiffers ==
    /\ ReadBackDone
    /\ ~ras_log[Len(ras_log) - 1].res[1]
    /\ kv_store[ras_log[Len(ras_log)].cmd.key] # None
    /\ normalize_spaces(kv_store[ras_log[Len(ras_log)].cmd.key]) # ValueWritten

\* C14: put_kv_store returns True exactly when the text kv_get reads back
\* for the field, with its whitespace normalised, equals the value given to
\* kv_put; so it returns False when the kv put did not take effect and the
\* store holds a different value.
C14_TrueIffReadBackEqual ==
    ras_call_rec.op = "put_kv_store" =>
        /\ ras_call_rec.out = Ret(TRUE)
              <=> (ReadBackDone /\ ValueWritten = normalize_spaces(ReadBack))
        /\ PutLostAndStoreDiffers => ras_call_rec.out = Ret(FALSE)

\* C8: create_remote_dir_recursive creates the directories of file_path:
\* each create_dir_sftp call is made with the path found missing just
\* before it, and when the function returns True every directory above
\* file_path exists on the node.
C8_MissingDirectoriesCreated ==
    ras_call_rec.op = "create_remote_dir_recursive" =>
        /\ \A i \in DOMAIN ras_log :
              ras_log[i].cmd.kind = "create_dir_sftp" =>
                 /\ i > 1
                 /\ ras_log[i - 1].cmd.kind = "path_exists"
                 /\ ~ras_log[i - 1].res
                 /\ ras_log[i].cmd.dpath = ras_log[i - 1].cmd.path
        /\ ras_call_rec.out = Ret(TRUE) =>
              PathAncestors(ras_call_rec.args.file_path) \subseteq remote_fs

\* the answer of copy_s3server_file in a call of validate_alert_msg
CopyAnswer == ras_log[1].res

\* the positions of the patterns that do not occur in the copied file
MissingPatterns ==
    {i \in DOMAIN ras_call_rec.args.pattern_lst :
        ~(CopyAnswer[1] /\ ras_call_rec.args.pattern_lst[i] \in CopyAnswer[2])}

FirstMissing == CHOOSE i \in MissingPatterns : \A j \in MissingPatterns : i <= j

\* the patterns looked for, in the order of the log
PatternsExamined ==
    [i \in 1..(Len(ras_log) - 1) |-> ras_log[i + 1].cmd.pattern]

AlertSteps == <<"sspl_service", "rabitmq_service", "copy_screen_log",
                "extract_log", "validate_alert_msg">>

\* the steps a call of alert_validation ran, in the order of the log
StepsRun ==
    SelectSeq(ras_log, LAMBDA e : \E i \in DOMAIN AlertSteps :
                                     e.cmd.kind = AlertSteps[i])

\* C19: alert_validation runs its steps in the order sspl service status,
\* rabbitmq service status, copy of the screen log, extraction of the alert
\* lines, pattern validation; a step that reports False is the last one
\* run and its result is what is returned; (True, "Fetched alerts
\* successfully") is returned only if all five steps succeeded; and with
\* restart=False the pcs resource is never restarted.
C19_StepsInOrder ==
    ras_call_rec.op = "alert_validation" =>
        /\ Len(StepsRun) <= Len(AlertSteps)
        /\ \A i \in DOMAIN StepsRun :
              /\ StepsRun[i].cmd.kind = AlertSteps[i]
              /\ ~StepsRun[i].res[1] =>
                    /\ i = Len(StepsRun)
                    /\ ras_call_rec.out = Ret(StepsRun[i].res)
        /\ (/\ ras_call_rec.out.kind = "return"
            /\ ras_call_rec.out.val[1]) =>
              /\ ras_call_rec.out.val[2] = "Fetched alerts successfully"
              /\ Len(StepsRun) = Len(AlertSteps)
              /\ \A i \in DOMAIN StepsRun : StepsRun[i].res[1]
        /\ ~ras_call_rec.args.restart =>
              \A i \in DOMAIN ras_log : ras_log[i].cmd.kind # "restart_pcs_resource"
        /\ \A i \in DOMAIN ras_log :
              ras_log[i].cmd.kind = "restart_pcs_resource" => i = 1

\* without a restart, the extraction failed after three good steps
C19_StoppedAtExtraction ==
    /\ ras_call_rec.op = "alert_validation"
    /\ ~ras_call_rec.args.restart
    /\ Len(StepsRun) = 4
    /\ ras_call_rec.out = Ret(<<FALSE, "error">>)

\* value == the text stored, as update_threshold_values compares them
StoredEquals(stored, value) ==
    /\ stored # None
    /\ IF value.type = "int"
       THEN IsIntText(stored) /\ str_to_int(stored) = value.int
       ELSE str_strip(stored) = str_strip(value.str)

LogKinds(log) == [i \in DOMAIN log |-> log[i].cmd.kind]

----------------------------------------------------------------------------
(* Properties of TestSupportBundle, checked under SpecBundle.              *)

AllProcessesEnded == \A i \in DOMAIN process_lst : process_lst[i].st = "done"

\* C2: a call of create_support_bundle with a shared list resp_lst adds
\* exactly one entry to it, the (status, output) of the call, whatever the
\* list held before (nothing included) and however the callers interleave;
\* when the N processes of test_collect_triggered_simultaneously_5280 have
\* ended the list holds N entries.
C2_ListGainsOneEntryPerCall ==
    /\ (/\ bundle_call_rec.op = "create_support_bundle"
        /\ "list" \in DOMAIN bundle_call_rec.args.resp_lst) =>
            /\ bundle_call_rec.out.kind = "return"
            /\ bundle_call_rec.resp_lst.list =
                  Append(bundle_call_rec.args.resp_lst.list, bundle_call_rec.out.val)
    /\ (/\ cur_test = "test_collect_triggered_simultaneously_5280"
        /\ AllProcessesEnded) =>
            Len(resp_lst) = LoopCount

\* C3: test_collect_triggered_simultaneously_5280 passes only if every one
\* of the N create_support_bundle calls it launched returned success.
C3_PassesOnlyIfAllSucceeded ==
    (/\ cur_test = "test_collect_triggered_simultaneously_5280"
     /\ verdict = "passed") =>
        \A i \in DOMAIN process_lst :
            /\ process_lst[i].out.kind = "return"
            /\ process_lst[i].out.val[1]

\* the executed steps that returned a failure: a create_support_bundle
\* call or a path-existence check with status False
FailureSteps ==
    {k \in DOMAIN trace :
        /\ trace[k].op \in {"create_support_bundle", "path_exists"}
        /\ ~trace[k].raised
        /\ ~trace[k].status}

NoStepRetried ==
    \A j, k \in DOMAIN trace : j # k => trace[j].pc # trace[k].pc

\* C4 as stated: in every test, as soon as a create_support_bundle call or
\* a path-existence check returns a failure, the test ends with a failing
\* verdict and executes no further step; no step is retried.
C4_FailureFailsTheTest ==
    /\ NoStepRetried
    /\ \A k \in FailureSteps : k = Len(trace) /\ verdict = "failed"

\* the two places where the test wants the failure
FailureExpected(t, step) ==
    \/ t = "test_dest_has_less_space_5274" /\ step.op = "create_support_bundle"
    \/ t = "test_collection_with_network_fluctuation_5272" /\ step.op = "path_exists"

\* C4, amended: a create_support_bundle call of the test body or a
\* path-existence check that returns a failure is the last step the test
\* executes, and no step is retried; the verdict is then failing, except
\* where the test expects the failure: in test_dest_has_less_space_5274 a
\* failed creation leaves the loop and the test passes, and in
\* test_collection_with_network_fluctuation_5272 the closing path check is
\* asserted False and the test passes.
C4_FailureEndsTheTest ==
    /\ NoStepRetried
    /\ \A k \in FailureSteps :
          /\ k = Len(trace)
          /\ verdict = IF FailureExpected(cur_test, trace[k])
                       THEN "passed" ELSE "failed"

\* the second creation of test_collection_one_after_other_5279 failed and
\* ended the test
C4_SecondCreationFailed ==
    /\ cur_test = "test_collection_one_after_other_5279"
    /\ verdict = "failed"
    /\ Len(trace) > 4
    /\ Len(trace) \in FailureSteps
    /\ trace[Len(trace)].op = "create_support_bundle"

\* the paths the running test appended to file_lst, and the paths its
\* teardown deleted
PathsAppended ==
    LET appends == SelectSeq(trace, LAMBDA e : e.op = "append")
    IN  [i \in DOMAIN appends |-> PathOf(cur_test)]

PathsDeleted ==
    LET deletes == SelectSeq(teardown_log, LAMBDA d : d.act = "delete_remote_dir")
    IN  [i \in DOMAIN deletes |-> deletes[i].path]

TeardownCompleted ==
    /\ test_phase = "torn_down"
    /\ \A i \in DOMAIN teardown_log : teardown_log[i].act # "raise"

\* C5: no state recorded by one test reaches a later test: file_lst holds
\* no path of an earlier test when a test starts, and the paths
\* teardown_method deletes after a test are exactly the paths this test
\* appended to file_lst.
C5_TestsShareNoPaths ==
    /\ test_phase \in {"body", "ended", "torn_down"} => file_lst_at_start = <<>>
    /\ TeardownCompleted => PathsDeleted = PathsAppended

\* the pairs of an original and a bundle file with the same base name
SameNamedPairs ==
    {<<i, j>> \in (DOMAIN bundle_call_rec.args.org_m0trace_lst)
                   \X (DOMAIN bundle_call_rec.args.x_m0trace_lst) :
        bundle_call_rec.args.org_m0trace_lst[i].name
           = bundle_call_rec.args.x_m0trace_lst[j].name}

PairDiffers(p) ==
    bundle_call_rec.args.org_m0trace_lst[p[1]].md5
       # bundle_call_rec.args.x_m0trace_lst[p[2]].md5

\* C15: validate_file_checksum returns True only if every pair of an
\* original and a bundle file with the same base name has equal md5
\* checksums, and a same-named pair whose contents differ makes it return
\* False, whatever the modification times of the two files are.
C15_DifferentContentsFalse ==
    bundle_call_rec.op = "validate_file_checksum" =>
        /\ bundle_call_rec.out = Ret(TRUE) =>
              \A p \in SameNamedPairs : ~PairDiffers(p)
        /\ (\E p \in SameNamedPairs : PairDiffers(p)) =>
              bundle_call_rec.out = Ret(FALSE)

\* the lines C16 says are inspected
LinesOfStatusCommand ==
    IF bundle_call_rec.args.stdout # <<>>
    THEN bundle_call_rec.args.stdout
    ELSE bundle_call_rec.args.stderr

\* C16: in pcs_start_stop_cluster and hctl_stop_cmd the lines inspected and
\* returned are the standard output of the status command when that is
\* not empty and its standard error otherwise; so pcs_start_stop_cluster
\* returns (False, lines) when a line of standard output contains the
\* cluster message.
C16_StdoutInspected ==
    (/\ bundle_call_rec.op \in {"pcs_start_stop_cluster", "hctl_stop_cmd"}
     /\ bundle_call_rec.args.host = Connected) =>
        /\ bundle_call_rec.out.kind = "return" =>
              bundle_call_rec.out.val[2] = LinesOfStatusCommand
        /\ (/\ bundle_call_rec.op = "pcs_start_stop_cluster"
            /\ \E i \in DOMAIN bundle_call_rec.args.stdout :
                  Contains(bundle_call_rec.args.stdout[i], cluster_msg_2)) =>
              bundle_call_rec.out = Ret(<<FALSE, bundle_call_rec.args.stdout>>)

\* C17: create_support_bundle returns (True, output) exactly when the
\* remote command reported success and its output contains the success
\* message, and (False, output) in every other case.
C17_BundleVerdict ==
    bundle_call_rec.op = "create_support_bundle" =>
        LET resp == bundle_call_rec.args.resp
        IN  bundle_call_rec.out =
               Ret(<<resp[1] /\ Contains(resp[2], success_msg), resp[2]>>)

\* the bundle creations the running test made, in their order
CreationsMade == SelectSeq(trace, LAMBDA e : e.op = "create_support_bundle")

TestOver == test_phase \in {"ended", "torn_down"}

\* C21: test_dest_has_less_space_5274 attempts the bundle creations of the
\* indices 0..count-1 in order for as long as they succeed, stops at the
\* first creation that fails, and passes when a creation among them fails.
C21_CreatesUntilFailure ==
    (cur_test = "test_dest_has_less_space_5274" /\ TestOver) =>
        /\ \A k \in DOMAIN CreationsMade :
              /\ ~CreationsMade[k].status => k = Len(CreationsMade)
              /\ (CreationsMade[k].status /\ k < LoopCount) => k < Len(CreationsMade)
        /\ (\E k \in DOMAIN CreationsMade : ~CreationsMade[k].status) =>
              verdict = "passed"

\* the test ended after it set pcs_start to False and before it set it back
PcsStartLeftFalse ==
    \E k \in DOMAIN trace :
        /\ trace[k].name = "pcs_start = False"
        /\ \A j \in DOMAIN trace : j > k => trace[j].op # "set_pcs_start"

\* where teardown_method did act, if it did
TeardownSteps(act) == {i \in DOMAIN teardown_log : teardown_log[i].act = act}

\* C22: when a test ended with pcs_start False, teardown_method re-enables
\* the s3server instances and issues the cluster start command before it
\* deletes any remote path; when pcs_start is True at teardown it issues no
\* start command.
C22_ClusterStartedBeforeDeletes ==
    test_phase = "torn_down" =>
        /\ PcsStartLeftFalse =>
              \E i \in TeardownSteps("enable_disable_s3server_instances"),
                 j \in TeardownSteps("cluster_start_cmd") :
                  /\ i < j
                  /\ \A d \in TeardownSteps("delete_remote_dir") : j < d
        /\ ~PcsStartLeftFalse => TeardownSteps("cluster_start_cmd") = {}

\* the steps of a kind the running test has executed
StepsDone(op) == {k \in DOMAIN trace : trace[k].op = op}

\* C23: in test_collect_triggered_simultaneously_5280 all N processes are
\* started before any is joined and the results are evaluated only after
\* all N have terminated; in test_collection_with_network_fluctuation_5272
\* the results are evaluated only after the bundle-creation process has
\* terminated.
C23_EvaluatedAfterTermination ==
    /\ cur_test = "test_collect_triggered_simultaneously_5280" =>
          /\ StepsDone("join") # {} =>
                /\ Cardinality(StepsDone("start")) = LoopCount
                /\ \A s \in StepsDone("start"), j \in StepsDone("join") : s < j
          /\ StepsDone("evaluate") # {} => AllProcessesEnded
    /\ cur_test = "test_collection_with_network_fluctuation_5272" =>
          (StepsDone("evaluate") # {} => process_lst[1].st = "done")

====
